---- MODULE Spec2Model ----
(***************************************************************************)
(* The workspace wallpaper orchestrator of hyprland-video-wallpapers: the  *)
(* bash helper script that src/app.py writes in _write_helper_script       *)
(* (src/app.py lines 1143-1700).  The script runs under `set -euo          *)
(* pipefail`; the model keeps what that implies: a failing simple command  *)
(* outside a condition, `||` list or `local x=$(...)` ends the shell that  *)
(* runs it, and so does the expansion of an unset variable.                *)
(***************************************************************************)
EXTENDS Integers, Sequences, FiniteSets, TLC

----------------------------------------------------------------------------
(* Bounds of the model.                                                    *)

\* workspace ids are 1..MaxWs
MaxWs == 2
\* outputs (monitors) are 1..NumMonitors
NumMonitors == 2

Workspaces == 1..MaxWs
Monitors == 1..NumMonitors

\* BLANK_IMAGE="/tmp/hyprpaper_blank.png"
BLANK_IMAGE == 0
\* image paths: path w > 0 is the image file chosen for workspace w
Paths == BLANK_IMAGE..MaxWs
\* what an output shows while the image daemon has been given no wallpaper
NoPath == -1

\* the empty string as the value of a workspace variable
NoWs == 0
\* a workspace variable that is not set at all (set -u makes its use fatal)
Unset == -1

----------------------------------------------------------------------------
VARIABLES
    VIDEO_MAP,          \* config: sequence of workspace ids, one player each
    IMAGE_MAP,          \* config: sequence of <<workspace id, image path>>
    envCW,              \* CURRENT_WORKSPACE as inherited from the environment
    binds_file,         \* togglefloating_binds.txt exists
    blank_file,         \* $BLANK_IMAGE exists
    pc,                 \* position of the script
    idx,                \* position in "${VIDEO_MAP[@]}" of the running loop
    CURRENT_WORKSPACE,
    PREVIOUS_WORKSPACE,
    NEW_WORKSPACE,
    has_video,
    has_image,
    decision,           \* "none" | "initial" | "event": the decision that log belongs to
    log,                \* commands issued by the decision in progress / last finished
    exit_cause,         \* why the script stopped
    mpv,                \* player per workspace: [proc, sock, pause]
    hyprpaper_up,       \* pgrep -x hyprpaper succeeds
    wallpaper,          \* what the image daemon shows on each output
    togglefloat_conf,   \* content of togglefloating.conf
    \* the layout engine
    GAP_SIZE,           \* config
    TOP_GAP,            \* config
    SCREEN_WIDTH,       \* width of the focused monitor, as queried
    SCREEN_HEIGHT,      \* height of the focused monitor, as queried
    win_geom,           \* geometry of the floating windows of the workspace,
                        \* in the order `hyprctl clients` lists them
    tile_cmds,          \* dispatches of the last pseudo_tile_workspace call
    \* the resize cascade
    rz_wins,            \* geometry of the floating windows, by address
    rz_resized,         \* address carried by the resizewindow event read last
    RESIZE_ADDR,
    right_window,
    left_window,
    rz_cmds,            \* dispatches of the last resizewindow handler
    rz_pc,              \* "loop" | "handled" | "broken"
    \* the startup migration
    TEMP_WORKSPACE_ID,  \* config
    NUM_WORKSPACES,     \* config
    clients,            \* the compositor's clients in the order `hyprctl
                        \* clients` lists them; the address is the position
    SAVED_WINDOWS,      \* address -> original workspace
    mg_cmds,            \* queries, dispatches and tiling calls of the startup
    backends_started,   \* create_blank_image, start_all_mpv, init_hyprpaper_wallpapers ran
    mg_pc,              \* "migrate" | "backends" | "restore" | "tiling" | "loop"
    \* the dispatch on event lines
    event,              \* the line read last
    ev_handler,         \* the `if` of the loop that matched it
    ev_arg,             \* the field its handler cut out of it
    ev_switch,          \* its handler went on to a workspace decision
    ev_cmds,            \* layout dispatches its handler issued
    ev_pc,              \* "loop" | "broken"
    \* the installer
    selected_workspaces,
    ws_to_media,        \* workspace id -> media item
    inst_page,          \* name of the visible page of the wizard
    num_workspaces,
    ws_checks,          \* checked workspace boxes of the Custom Settings page
                        \* the stack shows
    ws_toggled,         \* a workspace box has been toggled (history)
    stack,              \* names of the children of the Gtk.Stack
    video_dir,          \* a video directory is selected
    image_dir,          \* an image directory is selected
    gallery_rows,       \* workspaces the Gallery page the stack shows has a
                        \* dropdown for
    \* the start of the script: the configuration it sources
    cfg_file,           \* config.conf exists
    cfg_keys,           \* the variables config.conf assigns
    boot_trap,          \* `trap cleanup EXIT` has been run
    boot_players,       \* start_all_mpv has been run
    boot_moved,         \* COUNT_MOVED: windows sent to the temporary workspace
    boot_events,        \* layout events the loop has handled
    boot_status,        \* exit status of the script
    boot_pc,            \* "config" | "migrate" | "backends" | "restore" | "loop" | "exited"
    \* the desktop the layout handlers query
    focused_ws,         \* active workspace of the focused monitor
    monitor_info,       \* what the query for the focused monitor's size prints
    floating,           \* address -> workspace of the floating window, NoWs if none
    changed_ws,         \* workspace whose window set the event read last changed
    tiled_ws,           \* workspace the handler gave to pseudo_tile_workspace
    desk_cmds,          \* dispatches of the handler for the new window
    desk_pc             \* "loop" | "broken"

vars == << VIDEO_MAP, IMAGE_MAP, envCW, binds_file, blank_file, pc, idx,
           CURRENT_WORKSPACE, PREVIOUS_WORKSPACE, NEW_WORKSPACE, has_video,
           has_image, decision, log, exit_cause, mpv, hyprpaper_up, wallpaper,
           togglefloat_conf,
           GAP_SIZE, TOP_GAP, SCREEN_WIDTH, SCREEN_HEIGHT, win_geom, tile_cmds,
           rz_wins, rz_resized, RESIZE_ADDR, right_window, left_window, rz_cmds,
           rz_pc,
           TEMP_WORKSPACE_ID, NUM_WORKSPACES, clients, SAVED_WINDOWS, mg_cmds,
           backends_started, mg_pc,
           event, ev_handler, ev_arg, ev_switch, ev_cmds, ev_pc,
           selected_workspaces, ws_to_media, inst_page, num_workspaces,
           ws_checks, ws_toggled, stack, video_dir, image_dir, gallery_rows,
           cfg_file, cfg_keys, boot_trap, boot_players, boot_moved,
           boot_events, boot_status, boot_pc,
           focused_ws, monitor_info, floating, changed_ws, tiled_ws, desk_cmds,
           desk_pc >>

main_vars == << VIDEO_MAP, IMAGE_MAP, envCW, binds_file, blank_file, pc, idx,
                CURRENT_WORKSPACE, PREVIOUS_WORKSPACE, NEW_WORKSPACE, has_video,
                has_image, decision, log, exit_cause, mpv, hyprpaper_up,
                wallpaper, togglefloat_conf >>
layout_vars == << GAP_SIZE, TOP_GAP, SCREEN_WIDTH, SCREEN_HEIGHT, win_geom,
                  tile_cmds >>
resize_vars == << rz_wins, rz_resized, RESIZE_ADDR, right_window, left_window,
                  rz_cmds, rz_pc >>
migrate_vars == << TEMP_WORKSPACE_ID, NUM_WORKSPACES, clients, SAVED_WINDOWS,
                   mg_cmds, backends_started, mg_pc >>
events_vars == << event, ev_handler, ev_arg, ev_switch, ev_cmds, ev_pc >>
\* the parts of the script that the workspace handler, the layout engine and
\* the resize cascade leave alone
installer_vars == << selected_workspaces, ws_to_media, inst_page,
                     num_workspaces, ws_checks, ws_toggled, stack, video_dir,
                     image_dir, gallery_rows >>
boot_vars == << cfg_file, cfg_keys, boot_trap, boot_players, boot_moved,
                boot_events, boot_status, boot_pc >>
\* the start of the script, the desktop and the wizard
desk_vars == << focused_ws, monitor_info, floating, changed_ws, tiled_ws,
                desk_cmds, desk_pc >>
late_vars == << boot_vars, desk_vars >>
side_vars == << migrate_vars, events_vars, installer_vars, late_vars >>

config_vars == << VIDEO_MAP, IMAGE_MAP, envCW, binds_file >>
daemon_vars == << hyprpaper_up, wallpaper >>

----------------------------------------------------------------------------
(* Helpers over the configuration.                                         *)

Range(s) == { s[i] : i \in 1..Len(s) }

\* sequences over S without repetition
RECURSIVE SeqsNoDup(_)
SeqsNoDup(S) ==
    IF S = {} THEN { <<>> }
    ELSE { <<>> } \cup
         UNION { { <<x>> \o t : t \in SeqsNoDup(S \ {x}) } : x \in S }

\* ascending sequence of the elements of a set of integers
RECURSIVE SortedSeq(_)
SortedSeq(S) ==
    IF S = {} THEN <<>>
    ELSE LET m == CHOOSE x \in S : \A y \in S : x <= y
         IN  <<m>> \o SortedSeq(S \ {m})

VideoWorkspaces == Range(VIDEO_MAP)
ImageWorkspaces == { e[1] : e \in Range(IMAGE_MAP) }
ImagePaths == { e[2] : e \in Range(IMAGE_MAP) }

\* first entry of IMAGE_MAP for workspace ws (the loops `break` on the first match)
ImageOf(ws) ==
    LET i == CHOOSE j \in 1..Len(IMAGE_MAP) :
                 /\ IMAGE_MAP[j][1] = ws
                 /\ \A k \in 1..(j - 1) : IMAGE_MAP[k][1] # ws
    IN  IMAGE_MAP[i][2]

----------------------------------------------------------------------------
(* The commands a decision issues, in the order it issues them.            *)

\* a call of send_mpv_command with the pause value it carries
MpvCall(ws, paused) ==
    [op |-> "send_mpv_command", ws |-> ws, mon |-> 0, path |-> NoPath,
     flag |-> paused]
\* hyprctl hyprpaper preload <path>
PreloadCmd(path) ==
    [op |-> "preload", ws |-> NoWs, mon |-> 0, path |-> path,
     flag |-> FALSE]
\* hyprctl hyprpaper wallpaper <monitor>,<path>
WallpaperCmd(m, path) ==
    [op |-> "wallpaper", ws |-> NoWs, mon |-> m, path |-> path,
     flag |-> FALSE]
\* hyprctl hyprpaper unload <path>
UnloadCmd(path) ==
    [op |-> "unload", ws |-> NoWs, mon |-> 0, path |-> path,
     flag |-> FALSE]
\* entry into unload_all_images
UnloadAllCall ==
    [op |-> "unload_all_images", ws |-> NoWs, mon |-> 0, path |-> NoPath,
     flag |-> FALSE]
\* entry into set_hyprpaper_wallpaper
SetWallpaperCall(path) ==
    [op |-> "set_hyprpaper_wallpaper", ws |-> NoWs, mon |-> 0, path |-> path,
     flag |-> FALSE]
\* entry into manage_togglefloating
ToggleCall(ws) ==
    [op |-> "manage_togglefloating", ws |-> ws, mon |-> 0, path |-> NoPath,
     flag |-> FALSE]

\* one `wallpaper` command per monitor, in the order `hyprctl monitors` lists them
WallpaperCmds(path) == [ m \in Monitors |-> WallpaperCmd(m, path) ]

\* one `unload` per IMAGE_MAP entry, in map order
UnloadCmds == [ i \in 1..Len(IMAGE_MAP) |-> UnloadCmd(IMAGE_MAP[i][2]) ]

----------------------------------------------------------------------------
(* The video players.                                                      *)

NoPlayer == [proc |-> "none", sock |-> "absent", pause |-> FALSE]
\* `mpv ... --input-ipc-server=$socket_path ... &` after `rm -f $socket_path`:
\* a fresh player plays, and its socket appears only once it has come up
FreshPlayer == [proc |-> "running", sock |-> "absent", pause |-> FALSE]

\* what one call of send_mpv_command does with the socket of ws
SocatResult(ws) ==
    IF mpv[ws].sock = "absent" THEN "skip"       \* [ -S "$socket_path" ] fails
    ELSE IF mpv[ws].sock = "live" THEN "sent"    \* socat delivers the command
    ELSE "fail"                                  \* socat: connection refused

\* the players after send_mpv_command ws '{"command":["set_property","pause",p]}'
send_mpv_command(ws, paused) ==
    IF SocatResult(ws) = "sent" /\ mpv[ws].proc = "running"
    THEN [mpv EXCEPT ![ws].pause = paused]
    ELSE mpv

\* the command line of a player as start_all_mpv launches it, word by word
\* (lines 1299-1305)
player_cmdline ==
    << "mpv", "--no-osc", "--no-stop-screensaver", "--input-ipc-server=",
       "--loop", "--video-sync=display-resample", "--title=mpv-workspace-video",
       "--geometry=", "video_path" >>
\* the pattern of pkill -f "mpv --title=${MPV_WINDOW_CLASS}", word by word
pkill_pattern == << "mpv", "--title=mpv-workspace-video" >>

\* pkill -f: the pattern occurs in the command line as written, its words
\* next to each other
pkill_matches(cmdline, pattern) ==
    \E i \in 1..(Len(cmdline) - Len(pattern) + 1) :
        SubSeq(cmdline, i, i + Len(pattern) - 1) = pattern

\* pkill -f "mpv --title=${MPV_WINDOW_CLASS}": every process whose command
\* line matches is killed, and a killed player leaves its socket file behind
pkill_mpv ==
    [ w \in Workspaces |->
        IF mpv[w].proc = "running" /\ pkill_matches(player_cmdline, pkill_pattern)
        THEN [proc |-> "none",
              sock |-> IF mpv[w].sock = "live" THEN "stale" ELSE mpv[w].sock,
              pause |-> FALSE]
        ELSE mpv[w] ]

Unpaused == { w \in Workspaces : mpv[w].proc = "running" /\ ~mpv[w].pause }

----------------------------------------------------------------------------
(* The image daemon (hyprpaper) and the togglefloating fragment.           *)

AllMonitors(path) == [ m \in Monitors |-> path ]

\* daemon state after set_hyprpaper_wallpaper: ensure_hyprpaper starts the
\* daemon if pgrep does not find it, then preload and one wallpaper per monitor
set_hyprpaper_wallpaper(path) ==
    [up |-> TRUE,
     wallpaper |-> AllMonitors(path),
     cmds |-> <<SetWallpaperCall(path), PreloadCmd(path)>> \o WallpaperCmds(path)]

\* daemon state after unload_all_images: nothing unless the daemon runs and
\* the blank image exists; then blank on every monitor, then the unloads
unload_all_images ==
    IF hyprpaper_up /\ blank_file
    THEN [up |-> TRUE,
          wallpaper |-> AllMonitors(BLANK_IMAGE),
          cmds |-> <<UnloadAllCall, PreloadCmd(BLANK_IMAGE)>>
                   \o WallpaperCmds(BLANK_IMAGE) \o UnloadCmds]
    ELSE [up |-> hyprpaper_up,
          wallpaper |-> wallpaper,
          cmds |-> <<UnloadAllCall>>]

\* faulty variant of manage_togglefloating: a video workspace does not disable
\* the bind
manage_togglefloating_NeverDisabled(ws) ==
    IF binds_file THEN [state |-> "enabled", ws |-> ws] ELSE togglefloat_conf
\* togglefloating.conf after manage_togglefloating ws
manage_togglefloating(ws) ==
    IF ws \in VideoWorkspaces
    THEN [state |-> "disabled", ws |-> ws]
    ELSE IF binds_file
         THEN [state |-> "enabled", ws |-> ws]
         ELSE togglefloat_conf

----------------------------------------------------------------------------
(* Initial states: the configuration the script sources and the            *)
(* environment it is started in.                                           *)

\* IMAGE_MAP as the installer writes it, in ascending workspace order; the
\* image of a workspace is a file of its own or the blank placeholder's file
ImageMaps ==
    UNION { { [ i \in 1..Len(SortedSeq(W)) |->
                  << SortedSeq(W)[i],
                     IF SortedSeq(W)[i] \in B THEN BLANK_IMAGE ELSE SortedSeq(W)[i] >> ]
              : B \in SUBSET W }
            : W \in SUBSET Workspaces }

MainInit ==
    /\ VIDEO_MAP \in SeqsNoDup(Workspaces)
    /\ IMAGE_MAP \in ImageMaps
    /\ envCW \in {Unset, NoWs} \cup Workspaces
    /\ binds_file \in BOOLEAN
    /\ blank_file \in BOOLEAN
    /\ pc = "start"
    /\ idx = 1
    /\ CURRENT_WORKSPACE = envCW
    /\ PREVIOUS_WORKSPACE = Unset
    /\ NEW_WORKSPACE = Unset
    /\ has_video = FALSE
    /\ has_image = FALSE
    /\ decision = "none"
    /\ log = <<>>
    /\ exit_cause = "none"
    /\ mpv = [ w \in Workspaces |-> NoPlayer ]
    /\ hyprpaper_up \in BOOLEAN
    /\ wallpaper \in { AllMonitors(p) : p \in IF hyprpaper_up THEN {NoPath} \cup ImagePaths ELSE {NoPath} }
    /\ togglefloat_conf = [state |-> "managed", ws |-> NoWs]

----------------------------------------------------------------------------
(* How the script stops.                                                   *)

\* the main shell stops (errexit, nounset or the end of the script): the EXIT
\* trap runs cleanup and its pkill
cleanup(cause) ==
    /\ pc' = "exited"
    /\ exit_cause' = cause
    /\ mpv' = pkill_mpv

\* the subshell that runs the `while read` loop stops under errexit; socat is
\* still connected and the main shell still waits for the pipeline
loop_dies(cause) ==
    /\ pc' = "broken"
    /\ exit_cause' = cause

----------------------------------------------------------------------------
(* Startup, lines 1498-1588.                                               *)

\* the pkill meant for stale players from an earlier run
Startup ==
    /\ pc = "start"
    /\ mpv' = pkill_mpv
    /\ pc' = "create_blank"
    /\ UNCHANGED << side_vars, layout_vars, resize_vars, config_vars, daemon_vars, blank_file, idx, CURRENT_WORKSPACE,
                    PREVIOUS_WORKSPACE, NEW_WORKSPACE, has_video, has_image,
                    decision, log, exit_cause, togglefloat_conf >>

\* create_blank_image: ffmpeg writes the blank image unless it is there already;
\* a failing ffmpeg ends the script
CreateBlank ==
    /\ pc = "create_blank"
    /\ \/ /\ blank_file' = TRUE
          /\ pc' = "start_mpv"
          /\ idx' = 1
          /\ UNCHANGED << mpv, exit_cause >>
       \/ /\ ~blank_file
          /\ cleanup("ffmpeg")
          /\ UNCHANGED << blank_file, idx >>
    /\ UNCHANGED << side_vars, layout_vars, resize_vars, config_vars, daemon_vars, CURRENT_WORKSPACE,
                    PREVIOUS_WORKSPACE, NEW_WORKSPACE, has_video, has_image,
                    decision, log, togglefloat_conf >>

\* start_all_mpv, one map entry: remove the socket and launch the player
StartMpvLaunch ==
    /\ pc = "start_mpv"
    /\ idx <= Len(VIDEO_MAP)
    /\ mpv' = [mpv EXCEPT ![VIDEO_MAP[idx]] = FreshPlayer]
    /\ pc' = "start_mpv_pause"
    /\ UNCHANGED << side_vars, layout_vars, resize_vars, config_vars, daemon_vars, blank_file, idx, CURRENT_WORKSPACE,
                    PREVIOUS_WORKSPACE, NEW_WORKSPACE, has_video, has_image,
                    decision, log, exit_cause, togglefloat_conf >>

\* start_all_mpv, same entry after the sleeps: pause the player just launched
StartMpvPause ==
    /\ pc = "start_mpv_pause"
    /\ LET ws == VIDEO_MAP[idx] IN
       IF SocatResult(ws) = "fail"
       THEN /\ cleanup("socat")
            /\ UNCHANGED idx
       ELSE /\ mpv' = send_mpv_command(ws, TRUE)
            /\ idx' = idx + 1
            /\ pc' = "start_mpv"
            /\ UNCHANGED exit_cause
    /\ UNCHANGED << side_vars, layout_vars, resize_vars, config_vars, daemon_vars, blank_file, CURRENT_WORKSPACE,
                    PREVIOUS_WORKSPACE, NEW_WORKSPACE, has_video, has_image,
                    decision, log, togglefloat_conf >>

\* init_hyprpaper_wallpapers: ensure_hyprpaper when IMAGE_MAP is not empty
InitHyprpaper ==
    /\ pc = "start_mpv"
    /\ idx > Len(VIDEO_MAP)
    /\ IF Len(IMAGE_MAP) > 0 /\ ~hyprpaper_up
       THEN /\ hyprpaper_up' = TRUE
            /\ wallpaper' = AllMonitors(NoPath)
       ELSE UNCHANGED daemon_vars
    /\ pc' = "toggle0"
    /\ UNCHANGED << side_vars, layout_vars, resize_vars, config_vars, blank_file, idx, CURRENT_WORKSPACE,
                    PREVIOUS_WORKSPACE, NEW_WORKSPACE, has_video, has_image,
                    decision, log, exit_cause, mpv, togglefloat_conf >>

\* lines 1544-1546: `if [[ $CURRENT_WORKSPACE ]]` before the variable is assigned
Toggle0 ==
    /\ pc = "toggle0"
    /\ IF CURRENT_WORKSPACE = Unset
       THEN /\ cleanup("unbound")
            /\ UNCHANGED togglefloat_conf
       ELSE /\ togglefloat_conf' = IF CURRENT_WORKSPACE # NoWs
                                   THEN manage_togglefloating(CURRENT_WORKSPACE)
                                   ELSE togglefloat_conf
            /\ pc' = "query_ws"
            /\ UNCHANGED << mpv, exit_cause >>
    /\ UNCHANGED << side_vars, layout_vars, resize_vars, config_vars, daemon_vars, blank_file, idx, CURRENT_WORKSPACE,
                    PREVIOUS_WORKSPACE, NEW_WORKSPACE, has_video, has_image,
                    decision, log >>

\* lines 1548-1564: query the focused workspace, then the video part of the
\* initial decision (the loop stops at the first match)
InitialVideo(cw) ==
    /\ pc = "query_ws"
    /\ CURRENT_WORKSPACE' = cw
    /\ decision' = "initial"
    /\ has_image' = FALSE
    /\ IF cw = NoWs
       THEN /\ PREVIOUS_WORKSPACE' = cw
            /\ pc' = "loop"
            /\ log' = <<>>
            /\ has_video' = FALSE
            /\ UNCHANGED << mpv, exit_cause >>
       ELSE IF cw \in VideoWorkspaces
       THEN /\ log' = << MpvCall(cw, FALSE) >>
            /\ IF SocatResult(cw) = "fail"
               THEN /\ cleanup("socat")
                    /\ UNCHANGED << has_video, PREVIOUS_WORKSPACE >>
               ELSE /\ mpv' = send_mpv_command(cw, FALSE)
                    /\ has_video' = TRUE
                    /\ pc' = "initial_image"
                    /\ UNCHANGED << exit_cause, PREVIOUS_WORKSPACE >>
       ELSE /\ log' = <<>>
            /\ has_video' = FALSE
            /\ pc' = "initial_image"
            /\ UNCHANGED << mpv, exit_cause, PREVIOUS_WORKSPACE >>
    /\ UNCHANGED << side_vars, layout_vars, resize_vars, config_vars, daemon_vars, blank_file, idx, NEW_WORKSPACE,
                    togglefloat_conf >>

----------------------------------------------------------------------------
(* The image part of a decision, shared by the initial decision (lines     *)
(* 1566-1582) and the workspace event handler (lines 1611-1628).           *)

\* faulty variant of image_wanted: the image lookup forgets that video wins
image_wanted_NoVideoCheck(ws) == ws \in ImageWorkspaces

\* `if [ "$has_video" = false ]` and an IMAGE_MAP entry matches ws
image_wanted(ws) == ~has_video /\ ws \in ImageWorkspaces

\* faulty variant of unload_wanted: the unload is skipped when the workspace left
\* had no image either
unload_wanted_OnlyAfterImage ==
    (has_video \/ ~has_image)
    /\ (PREVIOUS_WORKSPACE \in ImageWorkspaces /\ PREVIOUS_WORKSPACE \notin VideoWorkspaces)

\* `if [ "$has_video" = true ] || [ "$has_image" = false ]`
unload_wanted == has_video \/ ~has_image

\* Step 2: set the image of ws when it is wanted
ImageStep(ws) ==
    IF image_wanted(ws)
    THEN LET r == set_hyprpaper_wallpaper(ImageOf(ws)) IN
         /\ hyprpaper_up' = r.up
         /\ wallpaper' = r.wallpaper
         /\ log' = log \o r.cmds
         /\ has_image' = TRUE
    ELSE UNCHANGED << daemon_vars, log, has_image >>

\* Step 3: unload_all_images when it is wanted
UnloadStep ==
    IF unload_wanted
    THEN LET r == unload_all_images IN
         /\ hyprpaper_up' = r.up
         /\ wallpaper' = r.wallpaper
         /\ log' = log \o r.cmds
    ELSE UNCHANGED << daemon_vars, log >>

\* lines 1566-1577 of the initial decision
InitialImage ==
    /\ pc = "initial_image"
    /\ ImageStep(CURRENT_WORKSPACE)
    /\ pc' = "initial_unload"
    /\ UNCHANGED << side_vars, layout_vars, resize_vars, config_vars, blank_file, idx, CURRENT_WORKSPACE,
                    PREVIOUS_WORKSPACE, NEW_WORKSPACE, has_video, decision,
                    exit_cause, mpv, togglefloat_conf >>

\* lines 1579-1588: the unload of the initial decision, then the loop starts
InitialUnload ==
    /\ pc = "initial_unload"
    /\ UnloadStep
    /\ PREVIOUS_WORKSPACE' = CURRENT_WORKSPACE
    /\ pc' = "loop"
    /\ UNCHANGED << side_vars, layout_vars, resize_vars, config_vars, blank_file, idx, CURRENT_WORKSPACE,
                    NEW_WORKSPACE, has_video, has_image, decision,
                    exit_cause, mpv, togglefloat_conf >>

----------------------------------------------------------------------------
(* The workspace event handler, lines 1592-1635.                           *)

\* a `workspace>>n` line with a numeric n is read from the event socket
WorkspaceEvent(n) ==
    /\ pc = "loop"
    /\ NEW_WORKSPACE' = n
    /\ has_video' = FALSE
    /\ has_image' = FALSE
    /\ idx' = 1
    /\ log' = <<>>
    /\ decision' = "event"
    /\ pc' = "step1"
    /\ UNCHANGED << side_vars, layout_vars, resize_vars, config_vars, daemon_vars, blank_file, CURRENT_WORKSPACE,
                    PREVIOUS_WORKSPACE, exit_cause, mpv, togglefloat_conf >>

\* the pause value Step 1 sends to the player of ws
pause_for(ws) == ws # NEW_WORKSPACE

\* Step 1, one VIDEO_MAP entry: resume the player of the new workspace, pause
\* every other one
Step1 ==
    /\ pc = "step1"
    /\ idx <= Len(VIDEO_MAP)
    /\ LET ws == VIDEO_MAP[idx] IN
       /\ log' = Append(log, MpvCall(ws, pause_for(ws)))
       /\ IF SocatResult(ws) = "fail"
          THEN /\ loop_dies("socat")
               /\ UNCHANGED << mpv, idx, has_video >>
          ELSE /\ mpv' = send_mpv_command(ws, pause_for(ws))
               /\ has_video' = (has_video \/ ws = NEW_WORKSPACE)
               /\ idx' = idx + 1
               /\ UNCHANGED << pc, exit_cause >>
    /\ UNCHANGED << side_vars, layout_vars, resize_vars, config_vars, daemon_vars, blank_file, CURRENT_WORKSPACE,
                    PREVIOUS_WORKSPACE, NEW_WORKSPACE, has_image, decision,
                    togglefloat_conf >>

\* faulty variant of video_loop_done: the image steps start after the first entry
video_loop_done_AfterFirst == idx > 1 \/ idx > Len(VIDEO_MAP)

\* the `for entry in "${VIDEO_MAP[@]}"` loop of Step 1 has run through
video_loop_done == idx > Len(VIDEO_MAP)

\* Step 2, once the video loop is through
Step2 ==
    /\ pc = "step1"
    /\ video_loop_done
    /\ ImageStep(NEW_WORKSPACE)
    /\ pc' = "step3"
    /\ UNCHANGED << side_vars, layout_vars, resize_vars, config_vars, blank_file, idx, CURRENT_WORKSPACE,
                    PREVIOUS_WORKSPACE, NEW_WORKSPACE, has_video, decision,
                    exit_cause, mpv, togglefloat_conf >>

\* Step 3
Step3 ==
    /\ pc = "step3"
    /\ UnloadStep
    /\ pc' = "step4"
    /\ UNCHANGED << side_vars, layout_vars, resize_vars, config_vars, blank_file, idx, CURRENT_WORKSPACE,
                    PREVIOUS_WORKSPACE, NEW_WORKSPACE, has_video, has_image,
                    decision, exit_cause, mpv, togglefloat_conf >>

\* Step 4 and the end of the handler
Step4 ==
    /\ pc = "step4"
    /\ togglefloat_conf' = manage_togglefloating(NEW_WORKSPACE)
    /\ log' = Append(log, ToggleCall(NEW_WORKSPACE))
    /\ PREVIOUS_WORKSPACE' = NEW_WORKSPACE
    /\ pc' = "loop"
    /\ UNCHANGED << side_vars, layout_vars, resize_vars, config_vars, daemon_vars, blank_file, idx, CURRENT_WORKSPACE,
                    NEW_WORKSPACE, has_video, has_image, decision, exit_cause,
                    mpv >>

\* the compositor closes the event socket: socat ends, the loop ends, the
\* script reaches its end
StreamEnds ==
    /\ pc = "loop"
    /\ cleanup("eof")
    /\ UNCHANGED << side_vars, layout_vars, resize_vars, config_vars, daemon_vars, blank_file, idx, CURRENT_WORKSPACE,
                    PREVIOUS_WORKSPACE, NEW_WORKSPACE, has_video, has_image,
                    decision, log, togglefloat_conf >>

\* after the loop's subshell has died: socat fails on its next write (or the
\* stream ends), the pipeline returns and the main shell leaves through cleanup
PipelineEnds ==
    /\ pc = "broken"
    /\ pc' = "exited"
    /\ mpv' = pkill_mpv
    /\ UNCHANGED << side_vars, layout_vars, resize_vars, config_vars, daemon_vars, blank_file, idx, CURRENT_WORKSPACE,
                    PREVIOUS_WORKSPACE, NEW_WORKSPACE, has_video, has_image,
                    decision, log, exit_cause, togglefloat_conf >>

----------------------------------------------------------------------------
(* The players' own steps.                                                 *)

Running == pc # "exited"

\* a launched player has come up and listens on its control socket
SocketReady(w) ==
    /\ Running
    /\ mpv[w].proc = "running"
    /\ mpv[w].sock = "absent"
    /\ mpv' = [mpv EXCEPT ![w].sock = "live"]
    /\ UNCHANGED << side_vars, layout_vars, resize_vars, config_vars, daemon_vars, blank_file, pc, idx,
                    CURRENT_WORKSPACE, PREVIOUS_WORKSPACE, NEW_WORKSPACE,
                    has_video, has_image, decision, log, exit_cause,
                    togglefloat_conf >>

\* a player exits on its own; its socket file may stay behind
PlayerExits(w) ==
    /\ Running
    /\ mpv[w].proc = "running"
    /\ \E s \in (IF mpv[w].sock = "live" THEN {"stale", "absent"} ELSE {"absent"}) :
          mpv' = [mpv EXCEPT ![w] = [proc |-> "none", sock |-> s, pause |-> FALSE]]
    /\ UNCHANGED << side_vars, layout_vars, resize_vars, config_vars, daemon_vars, blank_file, pc, idx,
                    CURRENT_WORKSPACE, PREVIOUS_WORKSPACE, NEW_WORKSPACE,
                    has_video, has_image, decision, log, exit_cause,
                    togglefloat_conf >>

----------------------------------------------------------------------------
(* The layout engine: pseudo_tile_workspace, lines 1332-1421.              *)

\* most floating windows on the workspace
MaxWindows == 6

\* focused-monitor sizes, gaps (the installer offers 0..60) and top gaps
\* (0..200 in steps of 5) the model is run with
ScreenWidths == {1000, 1366, 1921}
ScreenHeights == {768, 800, 1081}
GapSizes == {0, 10, 15, 60}
TopGaps == {0, 20, 30, 200}

\* bash $(( a / b )): integer division that truncates toward zero
BashDiv(a, b) == IF a >= 0 THEN a \div b ELSE -((-a) \div b)

Rect(x, y, w, h) == [x |-> x, y |-> y, w |-> w, h |-> h]

\* hyprctl dispatch resizewindowpixel "exact w h,address:<window i>"
ResizeCmd(i, w, h) == [op |-> "resizewindowpixel", win |-> i, a |-> w, b |-> h]
\* hyprctl dispatch movewindowpixel "exact x y,address:<window i>"
MoveCmd(i, x, y) == [op |-> "movewindowpixel", win |-> i, a |-> x, b |-> y]

usable_width == SCREEN_WIDTH - GAP_SIZE * 2
\* faulty variant of usable_height: one gap only, below the windows
usable_height_OneGap == SCREEN_HEIGHT - TOP_GAP - GAP_SIZE
usable_height == SCREEN_HEIGHT - TOP_GAP - GAP_SIZE * 2
start_y == GAP_SIZE + TOP_GAP

\* faulty variant of half_width: the gap between the two columns is forgotten
half_width_NoGap == BashDiv(usable_width, 2)
half_width == BashDiv(usable_width - GAP_SIZE, 2)
half_height == BashDiv(usable_height - GAP_SIZE, 2)
half_width_gap == GAP_SIZE + half_width + GAP_SIZE
half_height_gap == start_y + half_height + GAP_SIZE

\* the `*)` case: a grid of three columns
cols == 3
rows(n) == BashDiv(n + cols - 1, cols)
win_width == BashDiv(usable_width - GAP_SIZE * (cols - 1), cols)
win_height(n) == BashDiv(usable_height - GAP_SIZE * (rows(n) - 1), rows(n))
\* window i (counted from 0) of n in the grid
GridRect(i, n) ==
    LET col == i % cols
        row == BashDiv(i, cols)
        x == GAP_SIZE + col * (win_width + GAP_SIZE)
        y == IF row = 0 THEN start_y
             ELSE start_y + row * (win_height(n) + GAP_SIZE)
    IN  Rect(x, y, win_width, win_height(n))

\* the rectangle pseudo_tile_workspace gives each of n windows, in win_array order
TileRects(n) ==
    IF n = 0 THEN <<>>
    ELSE IF n = 1 THEN
        << Rect(GAP_SIZE, start_y, usable_width, usable_height) >>
    ELSE IF n = 2 THEN
        << Rect(GAP_SIZE, start_y, half_width, usable_height),
           Rect(half_width_gap, start_y, half_width, usable_height) >>
    ELSE IF n = 3 THEN
        << Rect(GAP_SIZE, start_y, half_width, usable_height),
           Rect(half_width_gap, start_y, half_width, half_height),
           Rect(half_width_gap, half_height_gap, half_width, half_height) >>
    ELSE IF n = 4 THEN
        << Rect(GAP_SIZE, start_y, half_width, half_height),
           Rect(half_width_gap, start_y, half_width, half_height),
           Rect(GAP_SIZE, half_height_gap, half_width, half_height),
           Rect(half_width_gap, half_height_gap, half_width, half_height) >>
    ELSE [ i \in 1..n |-> GridRect(i - 1, n) ]

\* the dispatches of pseudo_tile_workspace for n windows: per window a resize,
\* then a move; none at all for n = 0 (`[[ $win_count -eq 0 ]] && return`)
TileCmds(n) ==
    LET r == TileRects(n) IN
    [ k \in 1..(2 * n) |->
        LET i == (k + 1) \div 2 IN
        IF k % 2 = 1 THEN ResizeCmd(i, r[i].w, r[i].h)
        ELSE MoveCmd(i, r[i].x, r[i].y) ]

\* window geometry after the compositor has carried out a list of dispatches
RECURSIVE ApplyCmds(_, _)
ApplyCmds(g, cmds) ==
    IF cmds = <<>> THEN g
    ELSE LET c == Head(cmds)
             g1 == IF c.op = "resizewindowpixel"
                   THEN [g EXCEPT ![c.win].w = c.a, ![c.win].h = c.b]
                   ELSE [g EXCEPT ![c.win].x = c.a, ![c.win].y = c.b]
         IN  ApplyCmds(g1, Tail(cmds))

\* pseudo_tile_workspace on the windows g
pseudo_tile_workspace(g) ==
    /\ tile_cmds' = TileCmds(Len(g))
    /\ win_geom' = ApplyCmds(g, TileCmds(Len(g)))

\* the openwindow handler, lines 1637-1657: the new window gets the default
\* size and position, then the workspace is tiled
OpenWindow ==
    /\ Len(win_geom) < MaxWindows
    /\ LET default_width == SCREEN_WIDTH - GAP_SIZE * 2
           default_height == SCREEN_HEIGHT - TOP_GAP - GAP_SIZE
           new == Rect(GAP_SIZE, GAP_SIZE + TOP_GAP, default_width, default_height)
       IN  pseudo_tile_workspace(Append(win_geom, new))
    /\ UNCHANGED << side_vars, main_vars, resize_vars, GAP_SIZE, TOP_GAP, SCREEN_WIDTH,
                    SCREEN_HEIGHT >>

\* the closewindow handler, lines 1659-1666: window i is gone, the rest is tiled
CloseWindow(i) ==
    /\ i \in 1..Len(win_geom)
    /\ pseudo_tile_workspace([ k \in 1..(Len(win_geom) - 1) |->
                                 IF k < i THEN win_geom[k] ELSE win_geom[k + 1] ])
    /\ UNCHANGED << side_vars, main_vars, resize_vars, GAP_SIZE, TOP_GAP, SCREEN_WIDTH,
                    SCREEN_HEIGHT >>

LayoutInit ==
    /\ GAP_SIZE \in GapSizes
    /\ TOP_GAP \in TopGaps
    /\ SCREEN_WIDTH \in ScreenWidths
    /\ SCREEN_HEIGHT \in ScreenHeights
    /\ win_geom = <<>>
    /\ tile_cmds = <<>>

\* the layout engine at rest, for the specifications that are not about it
LayoutIdle ==
    /\ GAP_SIZE = 0
    /\ TOP_GAP = 0
    /\ SCREEN_WIDTH = 0
    /\ SCREEN_HEIGHT = 0
    /\ win_geom = <<>>
    /\ tile_cmds = <<>>

----------------------------------------------------------------------------
(* Event lines and `cut`.                                                  *)

\* an event line `name>>arg1,arg2,...` as its tokens: the name, the two '>',
\* and the arguments with a ',' between them
Word(n) == [t |-> "word", v |-> n]
Gt == [t |-> "gt", v |-> 0]
Comma == [t |-> "comma", v |-> 0]
Arg(a) == [t |-> "arg", v |-> a]

RECURSIVE JoinArgs(_)
JoinArgs(args) ==
    IF args = <<>> THEN <<>>
    ELSE IF Len(args) = 1 THEN << Arg(args[1]) >>
    ELSE << Arg(args[1]), Comma >> \o JoinArgs(Tail(args))

EventLine(name, args) == << Word(name), Gt, Gt >> \o JoinArgs(args)

\* the k-th field of a line, fields being what lies between consecutive
\* delimiters
RECURSIVE field_of(_, _, _)
field_of(line, delim, k) ==
    LET hits == { i \in 1..Len(line) : line[i] = delim } IN
    IF hits = {} THEN (IF k = 1 THEN line ELSE <<>>)
    ELSE LET first == CHOOSE i \in hits : \A j \in hits : i <= j IN
         IF k = 1 THEN SubSeq(line, 1, first - 1)
         ELSE field_of(SubSeq(line, first + 1, Len(line)), delim, k - 1)

\* cut -d<delim> -f<k>: a line without any delimiter is printed whole (no -s)
cut(line, delim, k) ==
    IF \A i \in 1..Len(line) : line[i] # delim THEN line
    ELSE field_of(line, delim, k)

\* the empty string as a window address
NoAddr == 0

\* the address a cut-out field stands for
AddrOf(field) == IF field = <<>> THEN NoAddr ELSE field[1].v

----------------------------------------------------------------------------
(* The resize cascade: find_adjacent_window (lines 1451-1489) and the      *)
(* resizewindow handler (lines 1667-1698).                                 *)

\* windows besides the resized one
MaxOthers == 2
Addrs == 1..(1 + MaxOthers)

\* the resized window and the windows around it the model is run with
ResizedRects == { Rect(100, 100, 300, 200) }
OtherRects ==
    { Rect(420, 120, 200, 180), Rect(395, 120, 200, 180),
      Rect(800, 120, 200, 180), Rect(30, -50, 200, 180),
      Rect(-150, -50, 140, 180) }

\* the tolerance band of the edge gap, and the least width of a neighbour
gap_min == -20
gap_max == 50
min_width == 100

\* get_window_geometry: empty for an address no client has, and the empty
\* fields then count as 0 in the arithmetic
get_window_geometry(addr) ==
    IF addr \in Addrs THEN rz_wins[addr] ELSE Rect(0, 0, 0, 0)

\* the edge gap of candidate w to the resized geometry r
edge_gap(r, w, edge) ==
    IF edge = "right" THEN w.x - (r.x + r.w) ELSE r.x - (w.x + w.w)

\* the test of line 1471 / 1481
is_candidate(r, w, edge) ==
    /\ edge_gap(r, w, edge) >= gap_min
    /\ edge_gap(r, w, edge) <= gap_max
    /\ w.y < r.y + r.h
    /\ w.y + w.h > r.y

\* the search loop for resized geometry r of window resize_addr: the
\* candidate of least gap, the first one listed among equals; NoAddr if none
adjacent(r, resize_addr, edge) ==
    LET cands == { a \in Addrs \ {resize_addr} : is_candidate(r, rz_wins[a], edge) } IN
    IF cands = {} THEN NoAddr
    ELSE CHOOSE a \in cands :
            \A b \in cands :
               \/ edge_gap(r, rz_wins[a], edge) < edge_gap(r, rz_wins[b], edge)
               \/ /\ edge_gap(r, rz_wins[a], edge) = edge_gap(r, rz_wins[b], edge)
                  /\ a <= b

find_adjacent_window(resize_addr, edge) ==
    adjacent(get_window_geometry(resize_addr), resize_addr, edge)

\* RESIZE_ADDR=$(echo "$event" | cut -d'>' -f2 | cut -d',' -f1)
resize_addr_of(line) == AddrOf(cut(cut(line, Gt, 2), Comma, 1))

\* faulty variant of local_builtin: `local` is accepted outside functions too
local_builtin_Anywhere(in_function) == TRUE
\* `local name=value`: bash accepts it inside a function only; outside it
\* prints "local: can only be used in a function" and returns 1
local_builtin(in_function) == in_function

\* line 1680: the width left for right neighbour w of resized geometry r
right_new_width(r, w) == w.x + w.w - (r.x + r.w) - GAP_SIZE
\* line 1691: the width left for left neighbour w
left_new_width(r, w) == r.x - w.x - GAP_SIZE
\* [ $new_width -gt 100 ]
width_ok(new_width) == new_width > min_width

\* lines 1682-1685: the dispatches for right neighbour a
right_cmds(r, a) ==
    LET w == get_window_geometry(a) IN
    IF width_ok(right_new_width(r, w))
    THEN << ResizeCmd(a, right_new_width(r, w), w.h),
            MoveCmd(a, r.x + r.w + GAP_SIZE, w.y) >>
    ELSE <<>>
\* lines 1693-1695: the dispatch for left neighbour a
left_cmds(r, a) ==
    LET w == get_window_geometry(a) IN
    IF width_ok(left_new_width(r, w))
    THEN << ResizeCmd(a, left_new_width(r, w), w.h) >>
    ELSE <<>>

\* the resizewindow handler for the event `resizewindow>>a`.  Each branch
\* that found a neighbour starts with `local` (lines 1679 and 1691) although
\* the loop is not inside a function: where `local` fails, errexit ends the
\* loop there, before any dispatch.  (A window the right branch has moved lies
\* beyond the band of the left search, which therefore finds what it would
\* have found before.)
ResizeWindow(a) ==
    /\ rz_pc \in {"loop", "handled"}
    /\ rz_resized' = a
    /\ LET addr == resize_addr_of(EventLine("resizewindow", <<a>>))
           r == get_window_geometry(addr)
           right == find_adjacent_window(addr, "right")
           left == find_adjacent_window(addr, "left")
       IN  /\ RESIZE_ADDR' = addr
           /\ right_window' = right
           /\ IF right # NoAddr /\ ~local_builtin(FALSE)
              THEN /\ rz_pc' = "broken"
                   /\ rz_cmds' = <<>>
                   /\ UNCHANGED left_window
              ELSE /\ left_window' = left
                   /\ IF left # NoAddr /\ ~local_builtin(FALSE)
                      THEN /\ rz_pc' = "broken"
                           /\ rz_cmds' = IF right # NoAddr THEN right_cmds(r, right)
                                         ELSE <<>>
                      ELSE /\ rz_pc' = "handled"
                           /\ rz_cmds' =
                                (IF right # NoAddr THEN right_cmds(r, right) ELSE <<>>)
                                \o (IF left # NoAddr THEN left_cmds(r, left) ELSE <<>>)
    /\ rz_wins' = ApplyCmds(rz_wins, rz_cmds')
    /\ UNCHANGED << side_vars, main_vars, layout_vars >>

ResizeInit ==
    /\ rz_wins \in { f \in [Addrs -> ResizedRects \cup OtherRects] :
                       /\ f[1] \in ResizedRects
                       /\ \A a \in Addrs \ {1} : f[a] \in OtherRects }
    /\ rz_resized = NoAddr
    /\ RESIZE_ADDR = NoAddr
    /\ right_window = NoAddr
    /\ left_window = NoAddr
    /\ rz_cmds = <<>>
    /\ rz_pc = "loop"

\* the resize cascade at rest, for the specifications that are not about it
ResizeIdle ==
    /\ rz_wins = [ a \in Addrs |-> Rect(0, 0, 0, 0) ]
    /\ rz_resized = NoAddr
    /\ RESIZE_ADDR = NoAddr
    /\ right_window = NoAddr
    /\ left_window = NoAddr
    /\ rz_cmds = <<>>
    /\ rz_pc = "loop"

\* the orchestrator waiting in its loop, for the specifications of the layout
\* engine and of the resize cascade
MainIdle ==
    /\ VIDEO_MAP = <<>>
    /\ IMAGE_MAP = <<>>
    /\ envCW = NoWs
    /\ binds_file = FALSE
    /\ blank_file = TRUE
    /\ pc = "loop"
    /\ idx = 1
    /\ CURRENT_WORKSPACE = 1
    /\ PREVIOUS_WORKSPACE = 1
    /\ NEW_WORKSPACE = Unset
    /\ has_video = FALSE
    /\ has_image = FALSE
    /\ decision = "none"
    /\ log = <<>>
    /\ exit_cause = "none"
    /\ mpv = [ w \in Workspaces |-> NoPlayer ]
    /\ hyprpaper_up = FALSE
    /\ wallpaper = AllMonitors(NoPath)
    /\ togglefloat_conf = [state |-> "managed", ws |-> NoWs]

----------------------------------------------------------------------------
(* The startup migration, lines 1500-1542: windows are parked on a         *)
(* temporary workspace while the players start, and brought back.          *)

\* clients known to the compositor when the script starts
MaxClients == 2

\* the workspaces a client may be on: a special workspace, 1, 2, and one
\* beyond NUM_WORKSPACES
ClientWorkspaces == {-99, 1, 2, 3}
\* TEMP_WORKSPACE_ID as _write_config_file computes it: max selected + 1, or
\* 99 once that exceeds 10
TempIds == {3, 10, 99}

Client(ws, is_wallpaper) == [ws |-> ws, wallpaper |-> is_wallpaper]
ClientLists ==
    UNION { [ 1..n -> { Client(w, b) : w \in ClientWorkspaces, b \in BOOLEAN } ]
            : n \in 0..MaxClients }

\* hyprctl clients -j | jq ...
ClientsQuery == [op |-> "clients", ws |-> 0, win |-> 0]
\* hyprctl dispatch movetoworkspacesilent "ws,address:a"
MoveWsCmd(ws, a) == [op |-> "movetoworkspacesilent", ws |-> ws, win |-> a]
\* pseudo_tile_workspace ws
TileCall(ws) == [op |-> "pseudo_tile_workspace", ws |-> ws, win |-> 0]

\* faulty variant of select_cond: the filter as its author meant it,
\* (.title | test("^mpv-workspace-video") | not) and .workspace.id != -1
select_cond_Parenthesised(c) ==
    IF ~c.wallpaper /\ c.ws # -1 THEN "true" ELSE "false"
\* the jq condition of line 1511 for client c,
\*   .title | test("^mpv-workspace-video") | not and .workspace.id != -1
\* `|` binds weaker than `and`, so `not and .workspace.id != -1` is applied
\* to the boolean that test produced: `and` evaluates its right side only when
\* `not` is true, and `.workspace` of a boolean is an error that ends jq
select_cond(c) ==
    LET b == c.wallpaper       \* .title | test("^mpv-workspace-video")
    IN  IF ~b THEN "error" ELSE "false"

\* the addresses jq prints, from client i on: jq stops at the first error
RECURSIVE clients_listed(_)
clients_listed(i) ==
    IF i > Len(clients) THEN <<>>
    ELSE IF select_cond(clients[i]) = "error" THEN <<>>
    ELSE IF select_cond(clients[i]) = "true" THEN <<i>> \o clients_listed(i + 1)
    ELSE clients_listed(i + 1)

\* the test of line 1506 on a printed line `address|workspace_id`
saved_ok(a) == clients[a].ws >= 1 /\ clients[a].ws <= NUM_WORKSPACES

\* faulty variant of migration_wanted: no bound on the temporary id
migration_wanted_Always == TRUE
\* [ "$TEMP_WORKSPACE_ID" -le 10 ]
migration_wanted == TEMP_WORKSPACE_ID <= 10

\* clients after the dispatches in cmds have been carried out
RECURSIVE MoveClients(_, _)
MoveClients(cs, cmds) ==
    IF cmds = <<>> THEN cs
    ELSE MoveClients([cs EXCEPT ![Head(cmds).win].ws = Head(cmds).ws], Tail(cmds))

\* lines 1500-1516
Migrate ==
    /\ mg_pc = "migrate"
    /\ IF migration_wanted
       THEN LET L == SelectSeq(clients_listed(1), saved_ok)
                moves == [ k \in 1..Len(L) |-> MoveWsCmd(TEMP_WORKSPACE_ID, L[k]) ]
            IN  /\ SAVED_WINDOWS' = [ a \in Range(L) |-> clients[a].ws ]
                /\ mg_cmds' = mg_cmds \o <<ClientsQuery>> \o moves
                /\ clients' = MoveClients(clients, moves)
       ELSE UNCHANGED << SAVED_WINDOWS, mg_cmds, clients >>
    /\ mg_pc' = "backends"
    /\ UNCHANGED << TEMP_WORKSPACE_ID, NUM_WORKSPACES, backends_started,
                    main_vars, layout_vars, resize_vars, events_vars,
                    installer_vars, late_vars >>

\* lines 1518-1523: the backends are started whatever the temporary id is
StartBackends ==
    /\ mg_pc = "backends"
    /\ backends_started' = TRUE
    /\ mg_pc' = "restore"
    /\ UNCHANGED << TEMP_WORKSPACE_ID, NUM_WORKSPACES, clients, SAVED_WINDOWS,
                    mg_cmds, main_vars, layout_vars, resize_vars, events_vars,
                    installer_vars, late_vars >>

\* lines 1525-1532: "${!SAVED_WINDOWS[@]}" lists the addresses in the order of
\* the hash table, which is any order
Restore ==
    /\ mg_pc = "restore"
    /\ IF migration_wanted
       THEN \E order \in SeqsNoDup(DOMAIN SAVED_WINDOWS) :
              /\ Len(order) = Cardinality(DOMAIN SAVED_WINDOWS)
              /\ LET moves == [ k \in 1..Len(order) |->
                                  MoveWsCmd(SAVED_WINDOWS[order[k]], order[k]) ]
                 IN  /\ mg_cmds' = mg_cmds \o moves
                     /\ clients' = MoveClients(clients, moves)
       ELSE UNCHANGED << mg_cmds, clients >>
    /\ mg_pc' = "tiling"
    /\ UNCHANGED << TEMP_WORKSPACE_ID, NUM_WORKSPACES, SAVED_WINDOWS,
                    backends_started, main_vars, layout_vars, resize_vars, events_vars,
                    installer_vars, late_vars >>

\* lines 1536-1542: every saved workspace is tiled once, in sorted order; the
\* map itself is left as it is
TileSaved ==
    /\ mg_pc = "tiling"
    /\ LET ws == SortedSeq({ SAVED_WINDOWS[a] : a \in DOMAIN SAVED_WINDOWS })
       IN  mg_cmds' = mg_cmds \o [ k \in 1..Len(ws) |-> TileCall(ws[k]) ]
    /\ mg_pc' = "loop"
    /\ UNCHANGED << TEMP_WORKSPACE_ID, NUM_WORKSPACES, clients, SAVED_WINDOWS,
                    backends_started, main_vars, layout_vars, resize_vars, events_vars,
                    installer_vars, late_vars >>

\* the event loop runs and a window opens: no handler of the loop reads or
\* writes SAVED_WINDOWS
ClientOpens(ws) ==
    /\ mg_pc = "loop"
    /\ Len(clients) < MaxClients
    /\ clients' = Append(clients, Client(ws, FALSE))
    /\ UNCHANGED << TEMP_WORKSPACE_ID, NUM_WORKSPACES, SAVED_WINDOWS, mg_cmds,
                    backends_started, mg_pc, main_vars, layout_vars,
                    resize_vars, events_vars, installer_vars, late_vars >>

MigrateInit ==
    /\ TEMP_WORKSPACE_ID \in TempIds
    /\ NUM_WORKSPACES = MaxWs
    /\ clients \in ClientLists
    /\ SAVED_WINDOWS = <<>>
    /\ mg_cmds = <<>>
    /\ backends_started = FALSE
    /\ mg_pc = "migrate"

\* the startup migration done and forgotten, for the specifications that are
\* not about it
MigrateIdle ==
    /\ TEMP_WORKSPACE_ID = 99
    /\ NUM_WORKSPACES = MaxWs
    /\ clients = <<>>
    /\ SAVED_WINDOWS = <<>>
    /\ mg_cmds = <<>>
    /\ backends_started = TRUE
    /\ mg_pc = "loop"

----------------------------------------------------------------------------
(* The event loop's dispatch on the line read, lines 1590-1699: four `if`s *)
(* on the glob patterns workspace*, openwindow*, closewindow* and          *)
(* resizewindow*.                                                          *)

\* an event line: the parts of its name, `>>` if it has one, the arguments
Line(name, sep, args) ==
    [ i \in 1..Len(name) |-> Word(name[i]) ]
    \o (IF sep THEN << Gt, Gt >> ELSE <<>>) \o JoinArgs(args)

\* the names the model reads: the four the loop knows, two that start with
\* one of them, and one it does not know
EventNames ==
    { <<"workspace">>, <<"openwindow">>, <<"closewindow">>, <<"resizewindow">>,
      <<"workspace", "v2">>, <<"closewindow", "v2">>, <<"activewindow">> }
EventArgs == { <<1>>, <<2, 1>>, <<1, 2, 7, 8>> }
EventLines ==
    { Line(n, TRUE, a) : n \in EventNames, a \in EventArgs \cup {<<>>} }
    \cup { Line(n, FALSE, <<>>) : n \in EventNames }

\* [[ $event == name* ]]
glob(line, name) == Len(line) >= 1 /\ line[1] = Word(name)

\* ${event#workspace>>}: the line without that prefix, or the whole line
strip_workspace(line) ==
    IF Len(line) >= 3 /\ SubSeq(line, 1, 3) = << Word("workspace"), Gt, Gt >>
    THEN SubSeq(line, 4, Len(line))
    ELSE line

\* faulty variant of is_number: only the start of the field is looked at
is_number_FirstField(field) == Len(field) >= 1 /\ field[1].t = "arg"
\* [[ "$x" =~ ^[0-9]+$ ]]
is_number(field) == Len(field) = 1 /\ field[1].t = "arg"

\* the window a dispatch with `address:<field>` goes to: none unless the field
\* is an address
TargetOf(field) == IF is_number(field) THEN field[1].v ELSE NoAddr

\* NEW_WINDOW_ADDR=$(echo "$event" | cut -d'>' -f3 | cut -d',' -f1)
new_window_addr_of(line) == cut(cut(line, Gt, 3), Comma, 1)
\* RESIZE_ADDR=$(echo "$event" | cut -d'>' -f2 | cut -d',' -f1), as a field
resize_field_of(line) == cut(cut(line, Gt, 2), Comma, 1)

\* the geometry the resizewindow handler reads for its RESIZE_ADDR field
resized_geometry(field) ==
    IF TargetOf(field) \in 1..Len(win_geom) THEN win_geom[TargetOf(field)]
    ELSE Rect(0, 0, 0, 0)

\* find_adjacent_window finds a neighbour on some side
neighbour_found(field) ==
    \E i \in 1..Len(win_geom), edge \in {"right", "left"} :
        /\ i # TargetOf(field)
        /\ is_candidate(resized_geometry(field), win_geom[i], edge)

\* one line is read and goes through the four `if`s
ReadEvent(line) ==
    /\ ev_pc = "loop"
    /\ event' = line
    /\ IF glob(line, "workspace")
       THEN /\ ev_handler' = "workspace"
            /\ ev_arg' = strip_workspace(line)
            /\ ev_switch' = is_number(strip_workspace(line))
            /\ ev_cmds' = <<>>
            /\ ev_pc' = "loop"
            /\ UNCHANGED << win_geom, tile_cmds >>
       ELSE IF glob(line, "openwindow")
       THEN /\ ev_handler' = "openwindow"
            /\ ev_arg' = new_window_addr_of(line)
            /\ ev_switch' = FALSE
            /\ pseudo_tile_workspace(win_geom)
            /\ ev_cmds' =
                 << ResizeCmd(TargetOf(new_window_addr_of(line)),
                              SCREEN_WIDTH - GAP_SIZE * 2,
                              SCREEN_HEIGHT - TOP_GAP - GAP_SIZE),
                    MoveCmd(TargetOf(new_window_addr_of(line)),
                            GAP_SIZE, GAP_SIZE + TOP_GAP) >>
                 \o TileCmds(Len(win_geom))
            /\ ev_pc' = "loop"
       ELSE IF glob(line, "closewindow")
       THEN /\ ev_handler' = "closewindow"
            /\ ev_arg' = <<>>
            /\ ev_switch' = FALSE
            /\ pseudo_tile_workspace(win_geom)
            /\ ev_cmds' = TileCmds(Len(win_geom))
            /\ ev_pc' = "loop"
       ELSE IF glob(line, "resizewindow")
       THEN /\ ev_handler' = "resizewindow"
            /\ ev_arg' = resize_field_of(line)
            /\ ev_switch' = FALSE
            /\ ev_cmds' = <<>>
            /\ ev_pc' = IF neighbour_found(resize_field_of(line))
                        THEN "broken" ELSE "loop"
            /\ UNCHANGED << win_geom, tile_cmds >>
       ELSE /\ ev_handler' = "none"
            /\ ev_arg' = <<>>
            /\ ev_switch' = FALSE
            /\ ev_cmds' = <<>>
            /\ ev_pc' = "loop"
            /\ UNCHANGED << win_geom, tile_cmds >>
    /\ UNCHANGED << migrate_vars, installer_vars, late_vars, main_vars, resize_vars, GAP_SIZE, TOP_GAP,
                    SCREEN_WIDTH, SCREEN_HEIGHT >>

EventsIdle ==
    /\ event = <<>>
    /\ ev_handler = "none"
    /\ ev_arg = <<>>
    /\ ev_switch = FALSE
    /\ ev_cmds = <<>>
    /\ ev_pc = "loop"

\* the focused monitor and the gaps the dispatch is run with
EventsLayoutInit ==
    /\ GAP_SIZE \in {10}
    /\ TOP_GAP \in {0, 30}
    /\ SCREEN_WIDTH \in {1366}
    /\ SCREEN_HEIGHT \in {768}
    /\ win_geom = <<>>
    /\ tile_cmds = <<>>

----------------------------------------------------------------------------
(* The installer: the assignment of media to workspaces and                *)
(* _write_config_file, which writes VIDEO_MAP and IMAGE_MAP.               *)

VIDEO_EXTS == {".mp4", ".mkv", ".webm", ".mov", ".avi"}
IMAGE_EXTS == {".png", ".jpg", ".jpeg", ".bmp", ".webp"}

\* the media library: the suffix of each file as it is spelled on disk
MediaSuffix == << ".mp4", ".PNG", ".MKV", ".jpg" >>
MediaItems == 1..Len(MediaSuffix)

\* str.lower() on the suffixes the library has
lower(s) ==
    IF s = ".PNG" THEN ".png" ELSE IF s = ".MKV" THEN ".mkv" ELSE s

\* Path(media_path_str).suffix.lower() in VIDEO_EXTS
is_video_media(m) == lower(MediaSuffix[m]) \in VIDEO_EXTS
\* faulty variant of is_image_media: every assignment is written as an image
is_image_media_Any(m) == m \in MediaItems
\* Path(media_path_str).suffix.lower() in IMAGE_EXTS
is_image_media(m) == lower(MediaSuffix[m]) \in IMAGE_EXTS

\* the script's own state, which the installer does not touch
script_vars == << envCW, binds_file, blank_file, pc, idx, CURRENT_WORKSPACE,
                  PREVIOUS_WORKSPACE, NEW_WORKSPACE, has_video, has_image,
                  decision, log, exit_cause, mpv, hyprpaper_up, wallpaper,
                  togglefloat_conf >>

\* everything but the installer's own state and the two maps it writes
outside_installer == << script_vars, layout_vars, resize_vars, migrate_vars,
                        events_vars, late_vars >>

\* the wizard runs with the navigation bar (HAS_ADW): without it no page has
\* a Back or a Next button

\* _push_page, line 355: page_name = title.lower().replace(" ", "-")
PageName(title) ==
    CASE title = "Welcome" -> "welcome"
      [] title = "Prerequisites" -> "prerequisites"
      [] title = "Video Source" -> "video-source"
      [] title = "Custom Settings" -> "custom-settings"
      [] title = "Gallery" -> "gallery"
      [] title = "Review" -> "review"

\* self.stack.get_child_by_name(name)
get_child_by_name(name) == name \in stack

\* _page_custom_settings, lines 666-673: the checked boxes of a page that
\* has just been built; a CheckButton is created inactive
page_custom_settings == {}

\* _push_page: the content is added only if the stack has no child of that
\* name; the child of that name becomes visible.  page_content is what the
\* content shows: the checked boxes of a Custom Settings page, the workspaces
\* a Gallery page has a dropdown for
push_page(title, page_content) ==
    LET page_name == PageName(title)
        added == ~get_child_by_name(page_name)
    IN  /\ stack' = stack \cup {page_name}
        /\ inst_page' = page_name
        /\ ws_checks' = IF added /\ page_name = "custom-settings"
                        THEN page_content ELSE ws_checks
        /\ gallery_rows' = IF added /\ page_name = "gallery"
                           THEN page_content ELSE gallery_rows

\* _start_install, then _perform_prereq_check_and_proceed
StartInstall(prereq_ok) ==
    /\ inst_page = "welcome"
    /\ selected_workspaces' = {}
    /\ IF prereq_ok THEN push_page("Video Source", {})
       ELSE push_page("Prerequisites", {})
    /\ UNCHANGED << ws_to_media, num_workspaces, ws_toggled, video_dir,
                    image_dir, VIDEO_MAP, IMAGE_MAP, outside_installer >>

\* prereq_to_source
PrereqToSource ==
    /\ inst_page = "prerequisites"
    /\ push_page("Video Source", {})
    /\ UNCHANGED << selected_workspaces, ws_to_media, num_workspaces,
                    ws_toggled, video_dir, image_dir, VIDEO_MAP, IMAGE_MAP,
                    outside_installer >>

\* _folder_cb: a directory of videos has been chosen
FolderCb ==
    /\ inst_page = "video-source"
    /\ video_dir' = TRUE
    /\ UNCHANGED << selected_workspaces, ws_to_media, inst_page,
                    num_workspaces, ws_checks, ws_toggled, stack, image_dir,
                    gallery_rows, VIDEO_MAP, IMAGE_MAP, outside_installer >>

\* _image_folder_cb: a directory of images has been chosen
ImageFolderCb ==
    /\ inst_page = "video-source"
    /\ image_dir' = TRUE
    /\ UNCHANGED << selected_workspaces, ws_to_media, inst_page,
                    num_workspaces, ws_checks, ws_toggled, stack, video_dir,
                    gallery_rows, VIDEO_MAP, IMAGE_MAP, outside_installer >>

\* _proceed_to_settings: with no directory chosen a dialog is shown and the
\* page stays
ProceedToSettings ==
    /\ inst_page = "video-source"
    /\ video_dir \/ image_dir
    /\ push_page("Custom Settings", page_custom_settings)
    /\ UNCHANGED << selected_workspaces, ws_to_media, num_workspaces,
                    ws_toggled, video_dir, image_dir, VIDEO_MAP, IMAGE_MAP,
                    outside_installer >>

\* a click on the checkbox of ws, then _on_workspace_toggled: the set follows
\* checkbox.get_active()
OnWorkspaceToggled(ws) ==
    /\ inst_page = "custom-settings"
    /\ ws_checks' = IF ws \in ws_checks THEN ws_checks \ {ws}
                    ELSE ws_checks \cup {ws}
    /\ selected_workspaces' =
         IF ws \in ws_checks' THEN selected_workspaces \cup {ws}
         ELSE selected_workspaces \ {ws}
    /\ num_workspaces' = Cardinality(selected_workspaces')
    /\ ws_toggled' = TRUE
    /\ UNCHANGED << ws_to_media, inst_page, stack, video_dir, image_dir,
                    gallery_rows, VIDEO_MAP, IMAGE_MAP, outside_installer >>

\* _load_gallery, lines 822-823 and 846-858: assignments of workspaces that
\* are no longer selected are dropped, the gallery page is built for
\* sorted(self.selected_workspaces) and pushed
load_gallery ==
    IF ~video_dir /\ ~image_dir
    THEN UNCHANGED << ws_to_media, stack, inst_page, ws_checks, gallery_rows >>
    ELSE /\ ws_to_media' =
              [ ws \in DOMAIN ws_to_media \cap selected_workspaces |->
                  ws_to_media[ws] ]
         /\ push_page("Gallery", selected_workspaces)

\* the Next button of the Custom Settings page
EnterGallery ==
    /\ inst_page = "custom-settings"
    /\ load_gallery
    /\ UNCHANGED << selected_workspaces, num_workspaces, ws_toggled,
                    video_dir, image_dir, VIDEO_MAP, IMAGE_MAP,
                    outside_installer >>

\* _pop_page, lines 367-376: the page the Back button of a page leads to
flow(current_name) ==
    CASE current_name = "prerequisites" -> "welcome"
      [] current_name = "video-source" ->
            IF get_child_by_name("prerequisites") THEN "prerequisites"
            ELSE "welcome"
      [] current_name = "custom-settings" -> "video-source"
      [] current_name = "gallery" -> "custom-settings"
      [] current_name = "review" -> "gallery"

\* _pop_page: the Back button
PopPage ==
    /\ inst_page \in {"prerequisites", "video-source", "custom-settings",
                      "gallery", "review"}
    /\ LET current_name == inst_page
           previous_name == flow(current_name)
       IN  /\ video_dir' = IF current_name = "video-source" THEN FALSE
                           ELSE video_dir
           /\ image_dir' = IF current_name = "video-source" THEN FALSE
                           ELSE image_dir
           /\ selected_workspaces' =
                IF current_name = "custom-settings" THEN {}
                ELSE selected_workspaces
           /\ num_workspaces' =
                IF current_name = "custom-settings" THEN 5
                ELSE num_workspaces
           /\ CASE previous_name = "gallery" -> load_gallery
                [] previous_name = "custom-settings" ->
                      \* the page is built again, "to reset checkboxes"
                      /\ ws_to_media' = <<>>
                      /\ push_page("Custom Settings", page_custom_settings)
                [] previous_name = "video-source" ->
                      /\ push_page("Video Source", {})
                      /\ UNCHANGED ws_to_media
                [] OTHER ->
                      /\ inst_page' = IF get_child_by_name(previous_name)
                                      THEN previous_name ELSE inst_page
                      /\ UNCHANGED << ws_to_media, stack, ws_checks,
                                      gallery_rows >>
    /\ UNCHANGED << ws_toggled, VIDEO_MAP, IMAGE_MAP, outside_installer >>

\* _on_media_selected for the dropdown of ws on the gallery page the stack
\* shows: index 0 unassigns; a media item another workspace has is refused
\* and the dropdown is set back to 0, which runs the handler again with
\* index 0
OnMediaSelected(ws, selected_index) ==
    /\ inst_page = "gallery"
    /\ ws \in gallery_rows
    /\ ws_to_media' =
         IF \/ selected_index = 0
            \/ \E existing_ws \in DOMAIN ws_to_media :
                  existing_ws # ws /\ ws_to_media[existing_ws] = selected_index
         THEN [ w \in DOMAIN ws_to_media \ {ws} |-> ws_to_media[w] ]
         ELSE [ w \in DOMAIN ws_to_media \cup {ws} |->
                  IF w = ws THEN selected_index ELSE ws_to_media[w] ]
    /\ UNCHANGED << selected_workspaces, inst_page, num_workspaces, ws_checks,
                    ws_toggled, stack, video_dir, image_dir, gallery_rows,
                    VIDEO_MAP, IMAGE_MAP, outside_installer >>

\* _build_review: the Next button of the gallery page
BuildReview ==
    /\ inst_page = "gallery"
    /\ push_page("Review", {})
    /\ UNCHANGED << selected_workspaces, ws_to_media, num_workspaces,
                    ws_toggled, video_dir, image_dir, VIDEO_MAP, IMAGE_MAP,
                    outside_installer >>

\* the Next button of the review page, _run_install_setup, as far as
\* _write_config_file, lines 1888-1900: the assignments in ascending
\* workspace order, videos into VIDEO_MAP, images into IMAGE_MAP.  The page
\* "written" is the Installing page once the configuration is on disk
WriteConfig ==
    /\ inst_page = "review"
    /\ LET sorted_assignments == SortedSeq(DOMAIN ws_to_media)
           is_video(ws) == is_video_media(ws_to_media[ws])
           is_image(ws) == is_image_media(ws_to_media[ws])
           images == SelectSeq(sorted_assignments, is_image)
       IN  /\ VIDEO_MAP' = SelectSeq(sorted_assignments, is_video)
           /\ IMAGE_MAP' = [ i \in 1..Len(images) |->
                               << images[i], ws_to_media[images[i]] >> ]
    /\ inst_page' = "written"
    /\ UNCHANGED << selected_workspaces, ws_to_media, num_workspaces,
                    ws_checks, ws_toggled, stack, video_dir, image_dir,
                    gallery_rows, outside_installer >>

\* MainWindow.__init__: the Welcome page is pushed
InstallerInit ==
    /\ selected_workspaces = {}
    /\ ws_to_media = <<>>
    /\ inst_page = "welcome"
    /\ num_workspaces = 5
    /\ ws_checks = {}
    /\ ws_toggled = FALSE
    /\ stack = {"welcome"}
    /\ video_dir = FALSE
    /\ image_dir = FALSE
    /\ gallery_rows = {}

\* the installer after it has written the configuration
InstallerIdle ==
    /\ selected_workspaces = {}
    /\ ws_to_media = <<>>
    /\ inst_page = "written"
    /\ num_workspaces = 5
    /\ ws_checks = {}
    /\ ws_toggled = FALSE
    /\ stack = {"welcome"}
    /\ video_dir = FALSE
    /\ image_dir = FALSE
    /\ gallery_rows = {}

----------------------------------------------------------------------------
(* The start of the script with a configuration that is missing or         *)
(* incomplete: lines 1144-1151, the trap of lines 1491-1496 and every      *)
(* place that expands one of the configuration's variables.                *)

\* the variables config.conf is meant to assign besides the two maps
Keys == {"NUM_WORKSPACES", "TEMP_WORKSPACE_ID", "GAP_SIZE", "TOP_GAP"}
\* layout events the loop handles after the start
MaxBootEvents == 2
\* the exit status of a script that still runs
NoStatus == -1

\* `set -u`: expanding name is fatal unless config.conf has assigned it
bound(name) == name \in cfg_keys

\* the status the script ends with when the shell stops with status st: once
\* the EXIT trap is set cleanup runs, and cleanup ends with `exit 0`
exit_status(st) == IF boot_trap THEN 0 ELSE st

script_exit(st) ==
    /\ boot_pc' = "exited"
    /\ boot_status' = exit_status(st)

\* lines 1146-1151 and 1496: without config.conf `exit 1`; otherwise it is
\* sourced, the functions are defined and the trap is set
LoadConfig ==
    /\ boot_pc = "config"
    /\ IF ~cfg_file
       THEN /\ script_exit(1)
            /\ UNCHANGED boot_trap
       ELSE /\ boot_trap' = TRUE
            /\ boot_pc' = "migrate"
            /\ UNCHANGED boot_status
    /\ UNCHANGED << cfg_file, cfg_keys, boot_players, boot_moved, boot_events,
                    main_vars, layout_vars, resize_vars, migrate_vars,
                    events_vars, installer_vars, desk_vars >>

\* the printed line of client a gets as far as `-le "$NUM_WORKSPACES"` in the
\* test of line 1506: its workspace id is a number and at least 1
reaches_num_workspaces(a) == clients[a].ws >= 1

\* lines 1500-1516: line 1500 expands TEMP_WORKSPACE_ID; line 1506 expands
\* NUM_WORKSPACES for a printed line that passes the tests before it
BootMigrate ==
    /\ boot_pc = "migrate"
    /\ IF ~bound("TEMP_WORKSPACE_ID")
       THEN /\ script_exit(1)
            /\ UNCHANGED boot_moved
       ELSE IF ~migration_wanted
       THEN /\ boot_pc' = "backends"
            /\ UNCHANGED << boot_moved, boot_status >>
       ELSE IF /\ ~bound("NUM_WORKSPACES")
               /\ \E k \in 1..Len(clients_listed(1)) :
                     reaches_num_workspaces(clients_listed(1)[k])
       THEN /\ script_exit(1)
            /\ UNCHANGED boot_moved
       ELSE /\ boot_moved' = Len(SelectSeq(clients_listed(1), saved_ok))
            /\ boot_pc' = "backends"
            /\ UNCHANGED boot_status
    /\ UNCHANGED << cfg_file, cfg_keys, boot_trap, boot_players, boot_events,
                    main_vars, layout_vars, resize_vars, migrate_vars,
                    events_vars, installer_vars, desk_vars >>

\* lines 1518-1523: create_blank_image, start_all_mpv and
\* init_hyprpaper_wallpapers expand none of the four variables
BootBackends ==
    /\ boot_pc = "backends"
    /\ boot_players' = TRUE
    /\ boot_pc' = "restore"
    /\ UNCHANGED << cfg_file, cfg_keys, boot_trap, boot_moved, boot_events,
                    boot_status, main_vars, layout_vars, resize_vars,
                    migrate_vars, events_vars, installer_vars, desk_vars >>

\* lines 1525-1542: the restore, then pseudo_tile_workspace for every saved
\* workspace, which expands GAP_SIZE and TOP_GAP (lines 1348-1350) for a
\* workspace that has a floating window
BootRestore ==
    /\ boot_pc = "restore"
    /\ IF boot_moved > 0 /\ ~(bound("GAP_SIZE") /\ bound("TOP_GAP"))
       THEN script_exit(1)
       ELSE /\ boot_pc' = "loop"
            /\ UNCHANGED boot_status
    /\ UNCHANGED << cfg_file, cfg_keys, boot_trap, boot_players, boot_moved,
                    boot_events, main_vars, layout_vars, resize_vars,
                    migrate_vars, events_vars, installer_vars, desk_vars >>

\* an openwindow line is read: lines 1648-1649 expand GAP_SIZE and TOP_GAP.
\* An unset one ends the loop's subshell, the pipeline fails and errexit ends
\* the script
BootOpenWindow ==
    /\ boot_pc = "loop"
    /\ boot_events < MaxBootEvents
    /\ IF bound("GAP_SIZE") /\ bound("TOP_GAP")
       THEN /\ boot_events' = boot_events + 1
            /\ UNCHANGED << boot_pc, boot_status >>
       ELSE /\ script_exit(1)
            /\ UNCHANGED boot_events
    /\ UNCHANGED << cfg_file, cfg_keys, boot_trap, boot_players, boot_moved,
                    main_vars, layout_vars, resize_vars, migrate_vars,
                    events_vars, installer_vars, desk_vars >>

\* the event stream ends and the script reaches its last line
BootStreamEnds ==
    /\ boot_pc = "loop"
    /\ script_exit(0)
    /\ UNCHANGED << cfg_file, cfg_keys, boot_trap, boot_players, boot_moved,
                    boot_events, main_vars, layout_vars, resize_vars,
                    migrate_vars, events_vars, installer_vars, desk_vars >>

BootInit ==
    /\ cfg_file \in BOOLEAN
    /\ cfg_keys \in (IF cfg_file THEN SUBSET Keys ELSE { {} })
    /\ boot_trap = FALSE
    /\ boot_players = FALSE
    /\ boot_moved = 0
    /\ boot_events = 0
    /\ boot_status = NoStatus
    /\ boot_pc = "config"

\* the script started long ago with a complete configuration
BootIdle ==
    /\ cfg_file = TRUE
    /\ cfg_keys = Keys
    /\ boot_trap = TRUE
    /\ boot_players = TRUE
    /\ boot_moved = 0
    /\ boot_events = 0
    /\ boot_status = NoStatus
    /\ boot_pc = "loop"

----------------------------------------------------------------------------
(* The desktop behind the openwindow and closewindow handlers (lines       *)
(* 1637-1666): windows on several workspaces, the focused workspace, and   *)
(* the answer to the query for the focused monitor's size.                 *)

\* addresses of floating windows
MaxDeskWindows == 2
DeskAddrs == 1..MaxDeskWindows

\* a word of the query's output: a decimal number, or a name such as `null`
Num(n) == [t |-> "num", v |-> n]
Name == [t |-> "name", v |-> 0]
\* a variable `read` found no word for
Empty == [t |-> "empty", v |-> 0]

\* answers of jq -r '.[] | select(.focused) | "\(.width) \(.height)"': a size,
\* a zero size, nothing, `null null`, and a width alone
MonitorInfos ==
    { << Num(1366), Num(768) >>, << Num(0), Num(0) >>, <<>>,
      << Name, Name >>, << Num(1366) >> }

\* read -r SCREEN_WIDTH SCREEN_HEIGHT <<< "$monitor_info": the k-th variable
read_field(info, k) == IF k <= Len(info) THEN info[k] ELSE Empty

\* $(( x ... )) for a variable holding word tok: a name is taken as a variable,
\* which is unset, and `set -u` ends the shell
arith_ok(tok) == tok.t # "name"
\* its value otherwise: an empty variable counts as 0
arith(tok) == IF tok.t = "num" THEN tok.v ELSE 0

\* the windows the jq filter of line 1335 selects for ws_id, out of f
windows_on(f, ws_id) == { a \in DeskAddrs : f[a] = ws_id }

\* pseudo_tile_workspace ws_id on the windows f: nothing for an empty
\* workspace; otherwise the monitor is queried and the windows are tiled
DeskTile(f, ws_id) ==
    /\ tiled_ws' = ws_id
    /\ IF windows_on(f, ws_id) = {}
       THEN /\ tile_cmds' = <<>>
            /\ desk_pc' = "loop"
            /\ UNCHANGED << SCREEN_WIDTH, SCREEN_HEIGHT >>
       ELSE IF /\ arith_ok(read_field(monitor_info, 1))
               /\ arith_ok(read_field(monitor_info, 2))
       THEN /\ SCREEN_WIDTH' = arith(read_field(monitor_info, 1))
            /\ SCREEN_HEIGHT' = arith(read_field(monitor_info, 2))
            /\ \E n \in { Cardinality(windows_on(f, ws_id)) } :
                  tile_cmds' = TileCmds(n)'
            /\ desk_pc' = "loop"
       ELSE /\ tile_cmds' = <<>>
            /\ desk_pc' = "broken"
            /\ UNCHANGED << SCREEN_WIDTH, SCREEN_HEIGHT >>

\* window a opens on workspace ws and `openwindow>>a,ws,...` is read, lines
\* 1637-1657: the handler asks for the focused workspace, gives the new window
\* its default size and place, and tiles the focused workspace
DeskOpenWindow(a, ws) ==
    /\ desk_pc = "loop"
    /\ floating[a] = NoWs
    /\ floating' = [floating EXCEPT ![a] = ws]
    /\ changed_ws' = ws
    /\ UNCHANGED << GAP_SIZE, TOP_GAP, focused_ws, monitor_info >>
    /\ LET CURRENT_WS == focused_ws
           w == read_field(monitor_info, 1)
           h == read_field(monitor_info, 2)
           default_width == arith(w) - GAP_SIZE * 2
           default_height == arith(h) - TOP_GAP - GAP_SIZE
       IN  IF arith_ok(w) /\ arith_ok(h)
           THEN /\ desk_cmds' = << ResizeCmd(a, default_width, default_height),
                                   MoveCmd(a, GAP_SIZE, GAP_SIZE + TOP_GAP) >>
                /\ DeskTile([floating EXCEPT ![a] = ws], CURRENT_WS)
           ELSE /\ desk_cmds' = <<>>
                /\ desk_pc' = "broken"
                /\ tiled_ws' = NoWs
                /\ UNCHANGED << SCREEN_WIDTH, SCREEN_HEIGHT, tile_cmds >>
    /\ UNCHANGED << win_geom, main_vars, resize_vars, migrate_vars, events_vars,
                    installer_vars, boot_vars >>

\* window a closes and `closewindow>>a` is read, lines 1659-1666: the handler
\* asks for the focused workspace and tiles it
DeskCloseWindow(a) ==
    /\ desk_pc = "loop"
    /\ floating[a] # NoWs
    /\ floating' = [floating EXCEPT ![a] = NoWs]
    /\ changed_ws' = floating[a]
    /\ desk_cmds' = <<>>
    /\ UNCHANGED << GAP_SIZE, TOP_GAP, focused_ws, monitor_info >>
    /\ LET CURRENT_WS == focused_ws
       IN  DeskTile([floating EXCEPT ![a] = NoWs], CURRENT_WS)
    /\ UNCHANGED << win_geom, main_vars, resize_vars, migrate_vars, events_vars,
                    installer_vars, boot_vars >>

\* the user goes to workspace ws: the layout handlers are not involved
FocusWorkspace(ws) ==
    /\ desk_pc = "loop"
    /\ focused_ws # ws
    /\ focused_ws' = ws
    /\ UNCHANGED << monitor_info, floating, changed_ws, tiled_ws, desk_cmds,
                    desk_pc, layout_vars, main_vars, resize_vars, migrate_vars,
                    events_vars, installer_vars, boot_vars >>

DeskInit ==
    /\ focused_ws \in Workspaces
    /\ monitor_info \in MonitorInfos
    /\ floating = [ a \in DeskAddrs |-> NoWs ]
    /\ changed_ws = NoWs
    /\ tiled_ws = NoWs
    /\ desk_cmds = <<>>
    /\ desk_pc = "loop"

\* an empty desktop
DeskIdle ==
    /\ focused_ws = 1
    /\ monitor_info = <<>>
    /\ floating = [ a \in DeskAddrs |-> NoWs ]
    /\ changed_ws = NoWs
    /\ tiled_ws = NoWs
    /\ desk_cmds = <<>>
    /\ desk_pc = "loop"

\* the start of the script, the desktop and the wizard at rest
LateIdle == BootIdle /\ DeskIdle

\* the startup migration, the line dispatch, the installer and the rest idle
SideIdle == MigrateIdle /\ EventsIdle /\ InstallerIdle /\ LateIdle

----------------------------------------------------------------------------
(* The main script reading a line that starts with `workspace`, lines      *)
(* 1590-1595: the line is read, NEW_WORKSPACE is cut out of it, and the     *)
(* decision of lines 1596-1633 runs only for a decimal number.             *)

\* the lines the main script is given besides `workspace>>n`
WorkspaceLines == { l \in EventLines : glob(l, "workspace") }

\* NEW_WORKSPACE holding something that is no decimal number
NotANumber == -2

\* `read -r event` delivers a line the first `if` matches
ReadWorkspaceLine(line) ==
    /\ pc = "loop"
    /\ line \in WorkspaceLines
    /\ event' = line
    /\ pc' = "read"
    /\ UNCHANGED << config_vars, daemon_vars, blank_file, idx, CURRENT_WORKSPACE,
                    PREVIOUS_WORKSPACE, NEW_WORKSPACE, has_video, has_image,
                    decision, log, exit_cause, mpv, togglefloat_conf,
                    layout_vars, resize_vars, migrate_vars, installer_vars,
                    late_vars, ev_handler, ev_arg, ev_switch, ev_cmds, ev_pc >>

\* lines 1593-1597 for the line read: NEW_WORKSPACE is assigned; for a number
\* the decision starts as in WorkspaceEvent, otherwise the handler is through
DispatchWorkspaceLine ==
    /\ pc = "read"
    /\ event' = <<>>
    /\ IF is_number(strip_workspace(event))
       THEN /\ NEW_WORKSPACE' = strip_workspace(event)[1].v
            /\ has_video' = FALSE
            /\ has_image' = FALSE
            /\ idx' = 1
            /\ log' = <<>>
            /\ decision' = "event"
            /\ pc' = "step1"
       ELSE /\ NEW_WORKSPACE' = NotANumber
            /\ pc' = "loop"
            /\ UNCHANGED << has_video, has_image, idx, log, decision >>
    /\ UNCHANGED << config_vars, daemon_vars, blank_file, CURRENT_WORKSPACE,
                    PREVIOUS_WORKSPACE, exit_cause, mpv, togglefloat_conf,
                    layout_vars, resize_vars, migrate_vars, installer_vars,
                    late_vars, ev_handler, ev_arg, ev_switch, ev_cmds, ev_pc >>

----------------------------------------------------------------------------
Next ==
    \/ Startup
    \/ CreateBlank
    \/ StartMpvLaunch
    \/ StartMpvPause
    \/ InitHyprpaper
    \/ Toggle0
    \/ \E cw \in {NoWs} \cup Workspaces : InitialVideo(cw)
    \/ InitialImage
    \/ InitialUnload
    \/ \E n \in Workspaces : WorkspaceEvent(n)
    \/ \E line \in WorkspaceLines : ReadWorkspaceLine(line)
    \/ DispatchWorkspaceLine
    \/ Step1
    \/ Step2
    \/ Step3
    \/ Step4
    \/ StreamEnds
    \/ PipelineEnds
    \/ \E w \in Workspaces : SocketReady(w)
    \/ \E w \in Workspaces : PlayerExits(w)

Init == MainInit /\ LayoutIdle /\ ResizeIdle /\ SideIdle

Spec == Init /\ [][Next]_vars

\* the layout engine alone: windows open and close on the focused workspace
LayoutSpecInit == MainIdle /\ LayoutInit /\ ResizeIdle /\ SideIdle

LayoutNext ==
    \/ OpenWindow
    \/ \E i \in 1..MaxWindows : CloseWindow(i)

SpecLayout == LayoutSpecInit /\ [][LayoutNext]_vars

\* the resize cascade alone: resizewindow events for the windows present
ResizeSpecInit ==
    /\ MainIdle
    /\ GAP_SIZE \in GapSizes
    /\ TOP_GAP = 0
    /\ SCREEN_WIDTH = 0
    /\ SCREEN_HEIGHT = 0
    /\ win_geom = <<>>
    /\ tile_cmds = <<>>
    /\ ResizeInit
    /\ SideIdle

ResizeNext == \E a \in Addrs : ResizeWindow(a)

SpecResize == ResizeSpecInit /\ [][ResizeNext]_vars

\* the startup migration alone
MigrateSpecInit ==
    /\ MainIdle /\ LayoutIdle /\ ResizeIdle /\ MigrateInit /\ EventsIdle
    /\ InstallerIdle /\ LateIdle

MigrateNext ==
    \/ Migrate
    \/ StartBackends
    \/ Restore
    \/ TileSaved
    \/ \E ws \in ClientWorkspaces : ClientOpens(ws)

SpecMigrate == MigrateSpecInit /\ [][MigrateNext]_vars

\* the line dispatch alone: windows open and close, and lines are read
EventsSpecInit ==
    /\ MainIdle /\ EventsLayoutInit /\ ResizeIdle /\ MigrateIdle /\ EventsIdle
    /\ InstallerIdle /\ LateIdle

EventsNext ==
    \/ OpenWindow
    \/ \E i \in 1..MaxWindows : CloseWindow(i)
    \/ \E line \in EventLines : ReadEvent(line)

SpecEvents == EventsSpecInit /\ [][EventsNext]_vars

\* the installer alone, before the script is ever started
InstallerSpecInit ==
    /\ MainIdle /\ LayoutIdle /\ ResizeIdle /\ MigrateIdle /\ EventsIdle
    /\ InstallerInit /\ LateIdle

InstallerNext ==
    \/ \E ws \in Workspaces : OnWorkspaceToggled(ws)
    \/ \E prereq_ok \in BOOLEAN : StartInstall(prereq_ok)
    \/ PrereqToSource
    \/ FolderCb
    \/ ImageFolderCb
    \/ ProceedToSettings
    \/ EnterGallery
    \/ PopPage
    \/ \E ws \in Workspaces, i \in {0} \cup MediaItems : OnMediaSelected(ws, i)
    \/ BuildReview
    \/ WriteConfig

SpecInstaller == InstallerSpecInit /\ [][InstallerNext]_vars

\* the start of the script alone, with the clients and the temporary id of
\* the startup migration
BootSpecInit ==
    /\ MainIdle /\ LayoutIdle /\ ResizeIdle /\ MigrateInit /\ EventsIdle
    /\ InstallerIdle /\ BootInit /\ DeskIdle

BootNext ==
    \/ LoadConfig
    \/ BootMigrate
    \/ BootBackends
    \/ BootRestore
    \/ BootOpenWindow
    \/ BootStreamEnds

SpecBoot == BootSpecInit /\ [][BootNext]_vars

\* the layout handlers on a desktop of several workspaces
DeskSpecInit ==
    /\ MainIdle /\ EventsLayoutInit /\ ResizeIdle /\ MigrateIdle /\ EventsIdle
    /\ InstallerIdle /\ BootIdle /\ DeskInit

DeskNext ==
    \/ \E a \in DeskAddrs, ws \in Workspaces : DeskOpenWindow(a, ws)
    \/ \E a \in DeskAddrs : DeskCloseWindow(a)
    \/ \E ws \in Workspaces : FocusWorkspace(ws)

SpecDesk == DeskSpecInit /\ [][DeskNext]_vars

----------------------------------------------------------------------------
(* Properties of the workspace decisions.                                  *)

\* how many entries of the log are calls of op
Count(op) == Cardinality({ i \in 1..Len(log) : log[i].op = op })

IsImageCmd(c) == c.op \in {"preload", "wallpaper", "unload"}

\* the decision classifies ws as image-active: it has an image and no video
ImageActive(ws) == ws \in ImageWorkspaces /\ ws \notin VideoWorkspaces

\* a workspace event handler has run to its end and the loop waits again
EventDone == pc = "loop" /\ decision = "event"

\* C1: once the handler of a workspace event has finished, at most one
\* video-mapped workspace's player is unpaused.
C1_AtMostOneUnpausedAfterEvent ==
    EventDone => Cardinality(Unpaused) <= 1

\* C2: at every point in time, also between the single pause/resume commands
\* of one handler, at most one player is unpaused: no step of the video loop
\* leads from at most one unpaused player to two.
C2_NeverTwoUnpausedInsideHandler ==
    [][ (pc = "step1" /\ Cardinality(Unpaused) <= 1)
            => Cardinality(Unpaused') <= 1 ]_vars

\* the workspace a decision is about, once its image part is through
DecidedWs ==
    IF pc \in {"step4"} THEN NEW_WORKSPACE
    ELSE IF pc = "loop" /\ decision \in {"initial", "event"} THEN PREVIOUS_WORKSPACE
    ELSE NoWs

\* C3: a decision whose workspace is not image-active (video-mapped, or no
\* image mapping) calls unload_all_images exactly once, whatever the workspace
\* before it was; no decision calls it twice.
C3_UnloadExactlyOnce ==
    /\ Count("unload_all_images") <= 1
    /\ (DecidedWs \in Workspaces /\ ~ImageActive(DecidedWs))
          => Count("unload_all_images") = 1

\* C3 witness: the handler has done its image part for a workspace that is not
\* image-active, coming from a workspace that was not image-active either.
C3_Witness ==
    /\ pc = "step4"
    /\ ~ImageActive(NEW_WORKSPACE)
    /\ PREVIOUS_WORKSPACE \in Workspaces
    /\ ~ImageActive(PREVIOUS_WORKSPACE)
    /\ PREVIOUS_WORKSPACE # NEW_WORKSPACE
    /\ Count("unload_all_images") = 1

\* C4: within one workspace event, the pause/resume command of every VIDEO_MAP
\* entry is issued before the first image-daemon command of that switch.
C4_VideoBeforeImage ==
    decision = "event" =>
        /\ \A i, j \in 1..Len(log) :
              (IsImageCmd(log[i]) /\ log[j].op = "send_mpv_command") => j < i
        /\ (\E i \in 1..Len(log) : IsImageCmd(log[i]))
              => /\ Count("send_mpv_command") = Len(VIDEO_MAP)
                 /\ \A k \in 1..Len(VIDEO_MAP) : log[k].ws = VIDEO_MAP[k]

\* C4 witness: a handler that has issued several player commands and then
\* image-daemon commands.
C4_Witness ==
    /\ decision = "event"
    /\ Len(VIDEO_MAP) >= 2
    /\ \E i \in 1..Len(log) : IsImageCmd(log[i])

\* C5: video wins. A decision never classifies a workspace as both video and
\* image; a switch to a workspace that is in both maps sends the resume to its
\* player (which then plays if its socket is up), never enters
\* set_hyprpaper_wallpaper and runs unload_all_images.
C5_VideoWins ==
    /\ ~(has_video /\ has_image)
    /\ (EventDone /\ PREVIOUS_WORKSPACE \in VideoWorkspaces \cap ImageWorkspaces) =>
          /\ \E i \in 1..Len(log) : log[i] = MpvCall(PREVIOUS_WORKSPACE, FALSE)
          /\ Count("set_hyprpaper_wallpaper") = 0
          /\ Count("unload_all_images") = 1
          /\ (mpv[PREVIOUS_WORKSPACE].proc = "running"
                /\ mpv[PREVIOUS_WORKSPACE].sock = "live")
                => ~mpv[PREVIOUS_WORKSPACE].pause

\* C5 witness: the handler finished for a workspace that is in both maps and
\* its player plays.
C5_Witness ==
    /\ EventDone
    /\ PREVIOUS_WORKSPACE \in VideoWorkspaces \cap ImageWorkspaces
    /\ PREVIOUS_WORKSPACE \in Unpaused
    /\ mpv[PREVIOUS_WORKSPACE].sock = "live"
    /\ hyprpaper_up

\* C6: a send_mpv_command whose socket cannot be used is a silent no-op: it
\* never ends the event loop.
C6_SendNeverEndsLoop ==
    ~(pc = "broken" /\ exit_cause = "socat")

\* C7: unload_all_images unloads every path of the image map except the blank
\* placeholder, which it has just set on every output.
C7_BlankNeverUnloaded ==
    \A i \in 1..Len(log) : log[i] # UnloadCmd(BLANK_IMAGE)

----------------------------------------------------------------------------
(* Properties of the layout engine.                                        *)

\* the usable rectangle as the specification words it: the screen minus
\* gapSize on the left, right and bottom and minus topGap on the top
SpecUsableRect ==
    Rect(GAP_SIZE, TOP_GAP, SCREEN_WIDTH - 2 * GAP_SIZE,
         SCREEN_HEIGHT - TOP_GAP - GAP_SIZE)

Inside(r, u) ==
    /\ r.x >= u.x
    /\ r.y >= u.y
    /\ r.x + r.w <= u.x + u.w
    /\ r.y + r.h <= u.y + u.h

Overlap(r, q) ==
    /\ r.x < q.x + q.w
    /\ q.x < r.x + r.w
    /\ r.y < q.y + q.h
    /\ q.y < r.y + r.h

\* C8: for every window count the rectangles pseudo_tile_workspace sets are
\* pairwise non-overlapping, each has a positive size and lies inside the
\* usable rectangle; for 0 windows no command is issued.
C8_TilesDisjointAndInside ==
    /\ \A i \in 1..Len(win_geom) :
          /\ win_geom[i].w > 0
          /\ win_geom[i].h > 0
          /\ Inside(win_geom[i], SpecUsableRect)
    /\ \A i, j \in 1..Len(win_geom) :
          i # j => ~Overlap(win_geom[i], win_geom[j])
    /\ Len(win_geom) = 0 => tile_cmds = <<>>
    /\ Len(tile_cmds) = 2 * Len(win_geom)

\* C8 witness: six windows tiled with a gap between them.
C8_Witness ==
    /\ Len(win_geom) = 6
    /\ Len(tile_cmds) = 12
    /\ GAP_SIZE > 0
    /\ win_geom[6] # win_geom[1]

\* C9 as stated: a single window gets exactly the usable rectangle (screen
\* minus gapSize left, right and bottom, minus topGap on top).
C9_SingleEqualsSpecUsable ==
    Len(win_geom) = 1 => win_geom[1] = SpecUsableRect

\* C9 amended: a single window gets the screen minus gapSize on all four
\* sides and minus topGap on top: origin (gapSize, gapSize + topGap), width
\* W - 2 gapSize, height H - topGap - 2 gapSize.
C9_SingleEqualsGappedRect ==
    Len(win_geom) = 1 =>
        win_geom[1] = Rect(GAP_SIZE, GAP_SIZE + TOP_GAP,
                           SCREEN_WIDTH - 2 * GAP_SIZE,
                           SCREEN_HEIGHT - TOP_GAP - 2 * GAP_SIZE)

\* C9 witness: one window tiled on a screen with a gap and a top gap.
C9_Witness ==
    /\ Len(win_geom) = 1
    /\ tile_cmds # <<>>
    /\ GAP_SIZE > 0
    /\ TOP_GAP > 0

----------------------------------------------------------------------------
(* Properties of the resize cascade.                                       *)

\* C10: once a resizewindow event for window R is handled, the window that is
\* right-adjacent to R (and stays at least min_width wide) has been resized
\* and moved: its left edge is R's right edge plus one gap, its right edge is
\* where it was.
C10_RightNeighbourAdjusted ==
    (rz_pc # "loop" /\ rz_resized \in Addrs) =>
        LET R == rz_wins[rz_resized]
            n == adjacent(R, rz_resized, "right")
        IN  n # NoAddr =>
              LET W == rz_wins[n]
                  new_x == R.x + R.w + GAP_SIZE
                  new_width == W.x + W.w - new_x
              IN  new_width > min_width =>
                    /\ ResizeCmd(n, new_width, W.h) \in Range(rz_cmds)
                    /\ MoveCmd(n, new_x, W.y) \in Range(rz_cmds)

\* the edge gap and the vertical overlap as the specification words them,
\* measured from the geometry R really has
InBand(R, w, edge) ==
    /\ edge_gap(R, w, edge) >= -20
    /\ edge_gap(R, w, edge) <= 50
    /\ w.y < R.y + R.h
    /\ R.y < w.y + w.h

----------------------------------------------------------------------------
(* Properties of the startup migration.                                    *)

\* a client the migration is meant for: not a wallpaper player, on one of the
\* workspaces 1..NUM_WORKSPACES
Migratable(a) ==
    /\ ~clients[a].wallpaper
    /\ clients[a].ws \in 1..NUM_WORKSPACES

\* C12: with a temporary workspace id the migration runs for, every
\* non-wallpaper window has been recorded, moved to the temporary workspace
\* and after that moved back to the workspace it was on.
C12_MovedAwayAndBack ==
    (mg_pc = "tiling" /\ TEMP_WORKSPACE_ID <= 10) =>
        \A a \in 1..Len(clients) :
            Migratable(a) =>
                \E i, j \in 1..Len(mg_cmds) :
                    /\ i < j
                    /\ mg_cmds[i] = MoveWsCmd(TEMP_WORKSPACE_ID, a)
                    /\ mg_cmds[j] = MoveWsCmd(clients[a].ws, a)

C14_NoMigrationAboveTen ==
    TEMP_WORKSPACE_ID > 10 =>
        /\ \A i \in 1..Len(mg_cmds) :
              mg_cmds[i].op \notin {"clients", "movetoworkspacesilent"}
        /\ \A a \in 1..Len(clients) : clients[a].ws # TEMP_WORKSPACE_ID
        /\ mg_pc \in {"restore", "tiling", "loop"} => backends_started

\* C14 witness: startup is through with temporary id 99 and a window that a
\* migration would have parked.
C14_Witness ==
    /\ TEMP_WORKSPACE_ID = 99
    /\ mg_pc = "loop"
    /\ backends_started
    /\ Len(clients) >= 1
    /\ Migratable(1)
    /\ mg_cmds = <<>>

----------------------------------------------------------------------------
(* Properties of the dispatch on event lines.                              *)

\* the line read last is `name>>arg1,...` with exactly this name and at least
\* one argument
IsEvent(name) ==
    /\ Len(event) >= 4
    /\ SubSeq(event, 1, 3) = << Word(name), Gt, Gt >>
    /\ event[4].t = "arg"

\* C15: the handler of a workspace event has the workspace id, the handler of
\* an openwindow event has the window address (the first argument), and the
\* handler of a resizewindow event has the resized window's address (the first
\* argument).
C15_ArgumentExtracted ==
    /\ (IsEvent("workspace") /\ Len(event) = 4) =>
          (ev_arg = << event[4] >> /\ ev_switch)
    /\ IsEvent("openwindow") => ev_arg = << event[4] >>
    /\ IsEvent("resizewindow") => ev_arg = << event[4] >>

\* C16: a line whose name is not exactly workspace, openwindow, closewindow
\* or resizewindow, or that has no `>>`, leads to no workspace decision and no
\* layout dispatch, and the loop goes on reading.
C16_UnknownLinesIgnored ==
    (event # <<>> /\ \A name \in {"workspace", "openwindow", "closewindow",
                                  "resizewindow"} :
                        ~(Len(event) >= 3 /\ SubSeq(event, 1, 3) = << Word(name), Gt, Gt >>))
        => /\ ev_cmds = <<>>
           /\ ~ev_switch
           /\ ev_pc = "loop"

----------------------------------------------------------------------------
(* Properties of the installer.                                            *)

\* C17: in the configuration the installer writes, every workspace id occurs
\* at most once over VIDEO_MAP and IMAGE_MAP together: a workspace assigned a
\* video file is in VIDEO_MAP only, one assigned an image file in IMAGE_MAP
\* only.
C17_MapsExclusive ==
    inst_page = "written" =>
        /\ \A i, j \in 1..Len(VIDEO_MAP) : VIDEO_MAP[i] = VIDEO_MAP[j] => i = j
        /\ \A i, j \in 1..Len(IMAGE_MAP) :
              IMAGE_MAP[i][1] = IMAGE_MAP[j][1] => i = j
        /\ VideoWorkspaces \cap ImageWorkspaces = {}
        /\ \A ws \in DOMAIN ws_to_media :
              /\ lower(MediaSuffix[ws_to_media[ws]]) \in VIDEO_EXTS
                    => (ws \in VideoWorkspaces /\ ws \notin ImageWorkspaces)
              /\ lower(MediaSuffix[ws_to_media[ws]]) \in IMAGE_EXTS
                    => (ws \in ImageWorkspaces /\ ws \notin VideoWorkspaces)

\* C17 witness: a configuration written with a video for one workspace and an
\* image for another.
C17_Witness ==
    /\ inst_page = "written"
    /\ ws_to_media # <<>>
    /\ VIDEO_MAP # <<>>
    /\ IMAGE_MAP # <<>>

----------------------------------------------------------------------------
(* Properties of the togglefloating fragment and of termination.           *)

C19_PlayersGoneAtExit ==
    pc = "exited" => \A w \in Workspaces : mpv[w].proc # "running"

\* C20: a dropped event stream is followed by attempts to reconnect; the
\* script does not go from its reading loop straight to its exit.
C20_NoExitWithoutRetry ==
    [][ pc = "loop" => pc' # "exited" ]_vars

----------------------------------------------------------------------------
(* Properties of the start of the script.                                  *)

\* config.conf is missing or lacks one of the four variables
ConfigInvalid == ~cfg_file \/ cfg_keys # Keys

\* C21: with an invalid configuration (no config.conf, or one of
\* NUM_WORKSPACES, TEMP_WORKSPACE_ID, GAP_SIZE, TOP_GAP missing) the script
\* launches no player, moves no window, and its exit status is not zero.
C21_InvalidConfigNeverStarts ==
    ConfigInvalid =>
        /\ ~boot_players
        /\ boot_moved = 0
        /\ boot_pc # "loop"
        /\ boot_pc = "exited" => boot_status # 0

----------------------------------------------------------------------------
(* Properties of the workspace decisions, continued.                       *)

\* the pause state the handler of `workspace>>n` means player w to have
PauseAfter(n, w) == w # n

\* C22: once the handler of a workspace event has finished, the pause state
\* of every running player is a function of the event's workspace id and
\* VIDEO_MAP alone, whatever the players' state was before: the player of the
\* event's workspace plays and every other one is paused.
C22_PauseFromEventAlone ==
    EventDone =>
        \A w \in VideoWorkspaces :
            mpv[w].proc = "running" =>
                mpv[w].pause = PauseAfter(PREVIOUS_WORKSPACE, w)

----------------------------------------------------------------------------
(* Properties of the layout handlers on the desktop.                       *)

\* an openwindow or closewindow event has been handled
LayoutEventDone == changed_ws # NoWs /\ desk_pc = "loop"

\* C23: after every openwindow and closewindow event the layout engine has
\* been run for the workspace whose window set changed, the one the opened or
\* closed window belongs to, whether or not it is the focused workspace.
C23_ChangedWorkspaceTiled ==
    LayoutEventDone => tiled_ws = changed_ws

\* the query answered with a width and a height that are positive numbers
GeometryUsable ==
    /\ Len(monitor_info) = 2
    /\ \A k \in 1..2 : monitor_info[k].t = "num" /\ monitor_info[k].v > 0

\* C27: when the monitor query answers with a zero, empty or malformed
\* size, the layout cycle is skipped: pseudo_tile_workspace issues no resize
\* and no move, and the event loop goes on to the next event.
C27_BadGeometrySkipsLayout ==
    (changed_ws # NoWs /\ ~GeometryUsable) =>
        /\ tile_cmds = <<>>
        /\ desk_pc = "loop"

----------------------------------------------------------------------------
(* Properties of the resize cascade, continued.                            *)

\* the handler of a resizewindow event has run
ResizeHandled == rz_pc # "loop" /\ rz_resized \in Addrs

\* a dispatch to window a is among the handler's commands
Touched(a) == \E i \in 1..Len(rz_cmds) : rz_cmds[i].win = a

----------------------------------------------------------------------------
(* Properties of the startup migration, continued.                         *)

\* the restoring dispatches among the startup's commands: moves to a
\* workspace other than the temporary one
RestoreMoves ==
    { i \in 1..Len(mg_cmds) :
        /\ mg_cmds[i].op = "movetoworkspacesilent"
        /\ mg_cmds[i].ws # TEMP_WORKSPACE_ID }

\* C26: in a startup migration every non-wallpaper window, whatever
\* workspace it is on, is on the temporary workspace before the first player
\* is launched; no window is restored before the backends have been started;
\* and the layout engine then runs exactly once per distinct restored
\* workspace.
C26_ParkedThenRestoredThenTiled ==
    TEMP_WORKSPACE_ID <= 10 =>
        /\ (mg_pc = "backends" /\ ~backends_started) =>
              \A a \in 1..Len(clients) :
                  ~clients[a].wallpaper => clients[a].ws = TEMP_WORKSPACE_ID
        /\ RestoreMoves # {} => backends_started
        /\ mg_pc = "loop" =>
              \A ws \in ClientWorkspaces :
                  Cardinality({ i \in 1..Len(mg_cmds) : mg_cmds[i] = TileCall(ws) })
                    = IF \E i \in RestoreMoves : mg_cmds[i].ws = ws THEN 1 ELSE 0

----------------------------------------------------------------------------
(* Properties of the togglefloating fragment, continued.                   *)

\* the fragment holds no bind line: the installer's comment-only fragment
\* (line 1818) and the one written for a video workspace (line 1215)
BindDisabled == togglefloat_conf.state # "enabled"

\* C28: whenever the script waits for an event, also when the loop has just
\* started and no workspace event has been read, the fragment matches the
\* workspace the script is on: the bind is disabled exactly if that workspace
\* is video-mapped.  (Stated for installations that captured a bind; without
\* one there is nothing the fragment could enable.)
C28_FragmentMatchesCurrentWorkspace ==
    (pc = "loop" /\ binds_file /\ PREVIOUS_WORKSPACE \in Workspaces) =>
        (BindDisabled <=> PREVIOUS_WORKSPACE \in VideoWorkspaces)

----------------------------------------------------------------------------
(* Properties of the main script on workspace lines without a number.      *)

\* the line read is `workspace>>n` with one decimal number n
NumericWorkspaceLine(line) ==
    /\ Len(line) = 4
    /\ SubSeq(line, 1, 3) = << Word("workspace"), Gt, Gt >>
    /\ line[4].t = "arg"

\* C29: a workspace line whose argument is not one decimal number (a name,
\* nothing, further comma-separated fields, or a longer event name) changes
\* nothing: no command to a player or to the image daemon, no write of the
\* togglefloating fragment, PREVIOUS_WORKSPACE as it was, and the script
\* back at reading the next line.
C29_NonNumericChangesNothing ==
    [][ (pc = "read" /\ pc' # "read" /\ ~NumericWorkspaceLine(event)) =>
            /\ pc' = "loop"
            /\ UNCHANGED << mpv, log, decision, hyprpaper_up, wallpaper,
                            togglefloat_conf, PREVIOUS_WORKSPACE >> ]_vars

\* C29 witness: such a line has been handled while the video of the workspace
\* the script is on was playing, and it still plays.
C29_Witness ==
    /\ pc = "loop"
    /\ NEW_WORKSPACE = NotANumber
    /\ PREVIOUS_WORKSPACE \in VideoWorkspaces
    /\ mpv[PREVIOUS_WORKSPACE].proc = "running"
    /\ ~mpv[PREVIOUS_WORKSPACE].pause

----------------------------------------------------------------------------
(* Properties of the wizard's navigation.                                  *)

\* C30: whenever the Custom Settings page is visible, selected_workspaces is
\* the set of workspace boxes that page shows as checked, and once a box has
\* been toggled num_workspaces is the size of that set.
C30_SelectionMatchesCheckboxes ==
    inst_page = "custom-settings" =>
        /\ selected_workspaces = ws_checks
        /\ ws_toggled => num_workspaces = Cardinality(selected_workspaces)

====
